---- MODULE Spec2Model ----
(***************************************************************************)
(* State-machine model of the <test-component> web component               *)
(* (src/src/test-component.js): the one-off / looping voice manager, the   *)
(* trajectory recorder/player, the multi-sequence engine and the graph     *)
(* compiler updateAudioGraph, together with the asynchronous asset loads   *)
(* and the expiry timers.  Every event handler runs to completion; the     *)
(* only suspension points are the awaits of an asset load.                 *)
(*                                                                         *)
(* Conventions                                                             *)
(*  - a JavaScript Map is a sequence of [k, v] entries in insertion order  *)
(*    (Map.set on an existing key keeps the position of the entry);        *)
(*  - an Elementary node el.X(props, ...children) is the record            *)
(*    [op, props, args]; numbers that are fractions are pairs <<n, d>>;    *)
(*  - Date.now() is the variable now, which need not advance between two   *)
(*    events; clock readings and durations are in milliseconds.            *)
(***************************************************************************)
EXTENDS Integers, Sequences, FiniteSets, TLC

VARIABLES
    initialized,              \* this.initialized
    uploadedSamples,          \* this.uploadedSamples (Set of urls)
    sampleDurations,          \* this.sampleDurations (Map url -> ms)
    loopingVoices,            \* this.loopingVoices (Map url -> node)
    activeVoices,             \* this.activeVoices (Map voiceId -> node)
    voiceTimeouts,            \* this.voiceTimeouts (Map voiceId -> timeoutId)
    mode,                     \* this.mode
    sampleParams,             \* this.sampleParams
    isRecording,              \* this.isRecording
    recordingStartTime,       \* this.recordingStartTime (NULL or clock value)
    currentRecordingId,       \* this.currentRecordingId (NULL or clock value)
    trajectories,             \* this.trajectories (Map id -> {events, isPlaying})
    activeTrajectorySignals,  \* this.activeTrajectorySignals (Map id -> node)
    sequences,                \* this.sequences (Map id -> Sequence)
    sequenceSignals,          \* this.sequenceSignals (Map id -> node)
    globalBpm,                \* this.globalBpm
    activeSequenceId,         \* this.activeSequenceId
    soloSequences,            \* this.soloSequences (Set of ids)
    controls,                 \* the sequence controls of the page: the ids whose
                              \* Clear button is enabled, the element rows shown
    now,                      \* the reading of Date.now()
    timers,                   \* pending setTimeout callbacks of playOneOffSound
    pending,                  \* handlers suspended in the awaits of an asset load
    fetches,                  \* per url: number of fetch() calls issued
    registrations,            \* per url: number of updateVirtualFileSystem calls
    rendered,                 \* arguments of the last core.render call
    serial,                   \* number of one-off voices created so far
    objects,                  \* number of Sequence objects constructed so far
    steps,                    \* number of handlers run so far
    last                      \* the event handled last and what it observed

vars == <<initialized, uploadedSamples, sampleDurations, loopingVoices,
          activeVoices, voiceTimeouts, mode, sampleParams, isRecording,
          recordingStartTime, currentRecordingId, trajectories,
          activeTrajectorySignals, sequences, sequenceSignals, globalBpm,
          activeSequenceId, soloSequences, controls, now, timers, pending, fetches,
          registrations, rendered, serial, objects, steps,
          last>>

----------------------------------------------------------------------------
(* Bounds of the model *)

MaxSteps == 9         \* handlers run in a behaviour
MaxPending == 2      \* handlers suspended at the same time

(* Program constants *)

maxVoices == 4

\* null and undefined where an id or a clock reading is expected
NULL == 0

\* the readings Date.now() takes in a run, in milliseconds
Clock == <<1000, 1004, 1500>>
ONE_OFF == "explore one-off"
LOOPING == "explore looping"
Modes == {ONE_OFF, LOOPING}

\* data-sound of the .element nodes of the page
Urls == {"u1", "u2"}

\* sampleBuffer.duration of each asset, in milliseconds
BufferDuration(url) == IF url = "u1" THEN 400 ELSE 450

\* values the sample parameter sliders are moved to
ParamValues ==
    [playbackRate |-> {<<1, 2>>, <<2, 1>>}, startOffset |-> {441}, endOffset |-> {441}]

----------------------------------------------------------------------------
(* JavaScript Map and Array helpers *)

Range(s) == {s[i] : i \in DOMAIN s}

MapKeys(m) == [i \in DOMAIN m |-> m[i].k]

MapValues(m) == [i \in DOMAIN m |-> m[i].v]

MapKeySet(m) == {m[i].k : i \in DOMAIN m}

MapHas(m, key) == key \in MapKeySet(m)

MapIndex(m, key) == CHOOSE i \in DOMAIN m : m[i].k = key

MapGet(m, key) == m[MapIndex(m, key)].v

MapSet(m, key, val) ==
    IF MapHas(m, key)
    THEN [m EXCEPT ![MapIndex(m, key)] = [k |-> key, v |-> val]]
    ELSE Append(m, [k |-> key, v |-> val])

MapDelete(m, key) == SelectSeq(m, LAMBDA e : e.k # key)

RECURSIVE Gcd(_, _)
Gcd(a, b) == IF b = 0 THEN a ELSE Gcd(b, a % b)

\* the number n / d, d > 0, in lowest terms
Frac(n, d) == IF n = 0 THEN <<0, 1>> ELSE <<n \div Gcd(n, d), d \div Gcd(n, d)>>

RAdd(a, b) == Frac(a[1] * b[2] + b[1] * a[2], a[2] * b[2])
RSub(a, b) == Frac(a[1] * b[2] - b[1] * a[2], a[2] * b[2])
RMul(a, b) == Frac(a[1] * b[1], a[2] * b[2])
RDiv(a, b) == Frac(a[1] * b[2], a[2] * b[1])
RLe(a, b) == a[1] * b[2] <= b[1] * a[2]
RLt(a, b) == a[1] * b[2] < b[1] * a[2]
RMax(a, b) == IF RLe(a, b) THEN b ELSE a

----------------------------------------------------------------------------
(* Elementary nodes *)

Node(op, props, args) == [op |-> op, props |-> props, args |-> args]

ElConst(props) == Node("const", props, <<>>)

ElAdd(args) == Node("add", <<>>, args)

ElMul(a, b) == Node("mul", <<>>, <<a, b>>)

Silence == ElConst([value |-> Frac(0, 1)])

\* an undefined signal
NoSignal == Node("undefined", <<>>, <<>>)

\* every asset path a graph refers to
RECURSIVE Paths(_)
Paths(n) ==
    (IF n.op \in {"sample", "sampleseq2"} THEN {n.props.path} ELSE {})
    \cup UNION {Paths(n.args[i]) : i \in DOMAIN n.args}

----------------------------------------------------------------------------
(* Voice construction *)

\* the props of el.mc.sample, params being this.sampleParams when it is called
SampleProps(url, playMode, params) ==
    [channels |-> 1, path |-> url, mode |-> playMode,
     playbackRate |-> params.playbackRate,
     startOffset |-> params.startOffset,
     endOffset |-> params.endOffset]

\* createOneOffVoice: a triggered sample scaled by 1 / maxVoices; the key of
\* its trigger constant is built from Date.now()
createOneOffVoice(soundUrl) ==
    ElMul(Node("sample", SampleProps(soundUrl, "trigger", sampleParams),
               <<ElConst([key |-> <<"voice", now, "trigger">>, value |-> Frac(1, 1)]),
                 ElConst([value |-> Frac(1, 1)])>>),
          ElConst([value |-> Frac(1, maxVoices)]))

\* createLoopingVoice: a looping sample scaled by 1 / maxVoices (the time
\* signal built from duration is not used by the node that is returned)
createLoopingVoice(soundUrl, duration, params) ==
    ElMul(Node("sample", SampleProps(soundUrl, "loop", params),
               <<ElConst([value |-> Frac(1, 1)]), ElConst([value |-> Frac(1, 1)])>>),
          ElConst([value |-> Frac(1, maxVoices)]))

----------------------------------------------------------------------------
(* The graph compiler *)

\* seqSignals.length === 1 ? seqSignals[0] : el.add(...seqSignals)
MixOf(signals) == IF Len(signals) = 1 THEN signals[1] ELSE ElAdd(signals)

\* a selection that mixes the voices of both kinds whatever the mode is
ModeSignalBoth(m, loops, voices) ==
    IF Len(loops) + Len(voices) > 0 THEN ElAdd(loops \o voices) ELSE Silence

\* the signal updateAudioGraph selects for the mode (undefined
\* when the mode is neither of the two)
ModeSignal(m, loops, voices) ==
    IF m = LOOPING
    THEN IF Len(loops) > 0 THEN ElAdd(loops) ELSE Silence
    ELSE IF m = ONE_OFF
         THEN IF Len(voices) > 0 THEN MixOf(voices) ELSE Silence
         ELSE NoSignal

AddIfAny(signal, signals) ==
    IF Len(signals) > 0
    THEN IF signal # NoSignal THEN ElAdd(<<signal, MixOf(signals)>>) ELSE MixOf(signals)
    ELSE signal

\* the signal updateAudioGraph builds from the mode and the values of the four
\* maps it reads
BuildGraph(m, loops, voices, seqSignals, trajSignals) ==
    LET s0 == ModeSignal(m, loops, voices)
        s1 == AddIfAny(s0, seqSignals)
        s2 == AddIfAny(s1, trajSignals)
    IN  IF s2 = NoSignal THEN Silence ELSE s2

\* this.core.render(signal, signal)
RenderCall(signal) == [left |-> signal, right |-> signal]

\* updateAudioGraph, run on the state the handler leaves behind
updateAudioGraph ==
    rendered' = RenderCall(BuildGraph(mode', MapValues(loopingVoices'),
                                      [i \in DOMAIN activeVoices' |-> activeVoices'[i].v.node],
                                      MapValues(sequenceSignals'),
                                      MapValues(activeTrajectorySignals')))

----------------------------------------------------------------------------
(* Groups of variables *)

assetVars == <<uploadedSamples, sampleDurations, registrations>>
oneOffVars == <<activeVoices, voiceTimeouts, timers, serial>>
recorderVars == <<isRecording, currentRecordingId>>
trajectoryVars == <<recordingStartTime, trajectories, activeTrajectorySignals>>
sequenceVars == <<sequences, sequenceSignals, globalBpm, activeSequenceId,
                  soloSequences, controls, objects>>

----------------------------------------------------------------------------
(* Asset loading: the awaits of fetch, decodeAudioData and                 *)
(* updateVirtualFileSystem in toggleLoopingSound, playOneOffSound and the  *)
(* onclick handler                                                         *)

\* a guard that sends every operation into the load
NeedsLoadAlways(soundUrl) == soundUrl \in Urls

\* the guard of the load: !this.uploadedSamples.has(soundUrl)
NeedsLoad(soundUrl) == soundUrl \notin uploadedSamples

\* a handler suspended in a load; equal handlers are told apart by n
Suspended(op, soundUrl, target) ==
    LET same == {c \in pending : c.op = op /\ c.url = soundUrl /\ c.target = target}
    IN  [op |-> op, url |-> soundUrl, target |-> target, n |-> Cardinality(same) + 1]

\* the handler reaches its first await: fetch(soundUrl) is issued
StartLoad(op, soundUrl, target) ==
    /\ Cardinality(pending) < MaxPending
    /\ pending' = pending \cup {Suspended(op, soundUrl, target)}
    /\ fetches' = [fetches EXCEPT ![soundUrl] = @ + 1]

\* the three awaits have succeeded: the asset is registered and recorded
FinishLoad(c) ==
    /\ pending' = pending \ {c}
    /\ registrations' = [registrations EXCEPT ![c.url] = @ + 1]
    /\ uploadedSamples' = uploadedSamples \cup {c.url}
    /\ sampleDurations' = MapSet(sampleDurations, c.url, BufferDuration(c.url))
    /\ UNCHANGED fetches

----------------------------------------------------------------------------
(* Trajectory recording from a trigger *)

NoUrl == ""

\* a recorder whose clock starts with the recording, not with its first event
recordEventEager(soundUrl) ==
    IF currentRecordingId = NULL
    THEN UNCHANGED <<recordingStartTime, trajectories>>
    ELSE LET currentTime == now - currentRecordingId
         IN  /\ recordingStartTime' =
                    IF recordingStartTime = NULL THEN now ELSE recordingStartTime
             /\ trajectories' =
                    IF MapHas(trajectories, currentRecordingId)
                    THEN LET t == MapGet(trajectories, currentRecordingId)
                         IN  MapSet(trajectories, currentRecordingId,
                                    [t EXCEPT !.events =
                                        Append(@, [time |-> currentTime, soundUrl |-> soundUrl])])
                    ELSE trajectories

\* a recorder that puts the new event in front of the list
recordEventFirst(soundUrl) ==
    IF currentRecordingId = NULL
    THEN UNCHANGED <<recordingStartTime, trajectories>>
    ELSE LET currentTime == IF recordingStartTime = NULL THEN 0
                            ELSE now - recordingStartTime
         IN  /\ recordingStartTime' =
                    IF recordingStartTime = NULL THEN now ELSE recordingStartTime
             /\ trajectories' =
                    IF MapHas(trajectories, currentRecordingId)
                    THEN LET t == MapGet(trajectories, currentRecordingId)
                         IN  MapSet(trajectories, currentRecordingId,
                                    [t EXCEPT !.events =
                                        <<[time |-> currentTime, soundUrl |-> soundUrl]>> \o @])
                    ELSE trajectories

\* recordEvent; a trajectory cleared while it is recorded makes the push throw
recordEvent(soundUrl) ==
    IF currentRecordingId = NULL
    THEN UNCHANGED <<recordingStartTime, trajectories>>
    ELSE LET currentTime == IF recordingStartTime = NULL THEN 0
                            ELSE now - recordingStartTime
         IN  /\ recordingStartTime' =
                    IF recordingStartTime = NULL THEN now ELSE recordingStartTime
             /\ trajectories' =
                    IF MapHas(trajectories, currentRecordingId)
                    THEN LET t == MapGet(trajectories, currentRecordingId)
                         IN  MapSet(trajectories, currentRecordingId,
                                    [t EXCEPT !.events =
                                        Append(@, [time |-> currentTime, soundUrl |-> soundUrl])])
                    ELSE trajectories

\* the events of the trajectory that is being recorded
Recorded ==
    IF currentRecordingId # NULL /\ MapHas(trajectories, currentRecordingId)
    THEN Len(MapGet(trajectories, currentRecordingId).events)
    ELSE 0

\* the tail of the element listener: if (this.isRecording) this.recordEvent(element)
RecordIfRecording(soundUrl) ==
    IF isRecording
    THEN recordEvent(soundUrl)
    ELSE UNCHANGED <<recordingStartTime, trajectories>>

----------------------------------------------------------------------------
(* One-off voices *)

\* remove oldest voice if at max: const [oldestKey] = this.activeVoices.keys()
EvictAtMax(voices) ==
    IF Len(voices) >= maxVoices THEN MapDelete(voices, voices[1].k) ELSE voices

\* `${soundUrl}-${Date.now()}`
VoiceId(soundUrl) == <<soundUrl, now>>

\* playOneOffSound from the eviction on: the voice is stored under its id, the
\* graph is rebuilt and the expiry timer is set.  Each created voice carries
\* the number of its creation (born), which is also its timer's id.
PlayLoaded(soundUrl) ==
    LET voiceId == VoiceId(soundUrl)
        voice == [node |-> createOneOffVoice(soundUrl), born |-> serial + 1]
    IN  /\ activeVoices' = MapSet(EvictAtMax(activeVoices), voiceId, voice)
        /\ serial' = serial + 1
        /\ timers' = timers \cup
               {[voiceId |-> voiceId, id |-> serial + 1,
                 due |-> now + MapGet(sampleDurations', soundUrl)]}
        /\ voiceTimeouts' = MapSet(voiceTimeouts, voiceId, serial + 1)

\* what the handler saw of the one-off voices before it acted
OneOffBefore == [voices |-> [i \in DOMAIN activeVoices |-> activeVoices[i].v.born],
                 keys |-> MapKeys(activeVoices)]

----------------------------------------------------------------------------
(* Looping voices *)

\* a toggle that stops every looping voice, not only the one of soundUrl
ToggleOffAll(loops, soundUrl) == <<>>

\* toggleLoopingSound from the branch on, the asset being loaded
ToggleOff(loops, soundUrl) == MapDelete(loops, soundUrl)

ToggleOn(loops, soundUrl) ==
    MapSet(loops, soundUrl,
           createLoopingVoice(soundUrl, MapGet(sampleDurations', soundUrl), sampleParams))

\* the looping voices as a set of (url, voice) pairs
LoopSet(loops) == Range(loops)

----------------------------------------------------------------------------
(* Initial state: the constructor of TestComponent *)

NoRender == [left |-> NoSignal, right |-> NoSignal]

Init ==
    /\ initialized = FALSE
    /\ uploadedSamples = {}
    /\ sampleDurations = <<>>
    /\ loopingVoices = <<>>
    /\ activeVoices = <<>>
    /\ voiceTimeouts = <<>>
    /\ mode = ONE_OFF
    /\ sampleParams = [startOffset |-> 0, endOffset |-> 0, playbackRate |-> <<1, 1>>]
    /\ isRecording = FALSE
    /\ recordingStartTime = NULL
    /\ currentRecordingId = NULL
    /\ trajectories = <<>>
    /\ activeTrajectorySignals = <<>>
    /\ sequences = <<>>
    /\ sequenceSignals = <<>>
    /\ globalBpm = 120
    /\ activeSequenceId = NULL
    /\ soloSequences = {}
    /\ controls = [clear |-> {}, rows |-> <<>>]
    /\ now = Clock[1]
    /\ timers = {}
    /\ pending = {}
    /\ fetches = [u \in Urls |-> 0]
    /\ registrations = [u \in Urls |-> 0]
    /\ rendered = NoRender
    /\ serial = 0
    /\ objects = 0
    /\ steps = 0
    /\ last = [op |-> "constructor"]

----------------------------------------------------------------------------
(* Events of the environment *)

\* a handler runs to completion; entry is what it did and what it found
Handler(entry) ==
    /\ steps < MaxSteps
    /\ steps' = steps + 1
    /\ last' = entry

\* Date.now() moves on to its next reading
Tick ==
    /\ \E i \in 1..(Len(Clock) - 1) : now = Clock[i] /\ now' = Clock[i + 1]
    /\ UNCHANGED <<initialized, assetVars, loopingVoices, oneOffVars, mode,
                   sampleParams, recorderVars, trajectoryVars, sequenceVars,
                   timers, pending, fetches, rendered, steps, last>>

\* the click on #init-audio, initializeAudio succeeding
InitializeAudio ==
    /\ ~initialized
    /\ initialized' = TRUE
    /\ Handler([op |-> "initializeAudio"])
    /\ UNCHANGED <<assetVars, loopingVoices, oneOffVars, mode, sampleParams,
                   recorderVars, trajectoryVars, sequenceVars, now, pending,
                   fetches, rendered>>

----------------------------------------------------------------------------
(* The listener of an .element node (mouseenter):                          *)
(*   await toggleLoopingSound / playOneOffSound by mode, then recordEvent  *)

\* not initialized: both functions return at once
TriggerUninitialized(u) ==
    /\ ~initialized
    /\ RecordIfRecording(u)
    /\ Handler([op |-> "trigger", url |-> u])
    /\ UNCHANGED <<initialized, assetVars, loopingVoices, oneOffVars, mode,
                   sampleParams, recorderVars, activeTrajectorySignals,
                   sequenceVars, now, pending, fetches, rendered>>

\* the handler that ran last was a toggle of u, and what it had read of u
\* before its load (isLooping) was still so when it acted
JustToggled(u) == last.op = "toggleLoop" /\ last.url = u /\ last.settled

\* looping mode: one synchronous toggle of a looping or a loaded sound
TriggerToggle(u) ==
    /\ initialized
    /\ mode = LOOPING
    /\ MapHas(loopingVoices, u) \/ ~NeedsLoad(u)
    /\ UNCHANGED <<assetVars>>
    /\ loopingVoices' = IF MapHas(loopingVoices, u) THEN ToggleOff(loopingVoices, u)
                        ELSE ToggleOn(loopingVoices, u)
    /\ RecordIfRecording(u)
    /\ Handler([op |-> "toggleLoop", url |-> u, sync |-> TRUE, settled |-> TRUE,
                before |-> LoopSet(loopingVoices),
                again |-> JustToggled(u),
                first |-> IF JustToggled(u) THEN last.before ELSE {}])
    /\ UNCHANGED <<initialized, oneOffVars, mode, sampleParams, recorderVars,
                   activeTrajectorySignals, sequenceVars, now, pending, fetches>>
    /\ updateAudioGraph

\* one-off mode, the sound being loaded
TriggerPlay(u) ==
    /\ initialized
    /\ mode = ONE_OFF
    /\ ~NeedsLoad(u)
    /\ UNCHANGED <<assetVars>>
    /\ PlayLoaded(u)
    /\ RecordIfRecording(u)
    /\ Handler([op |-> "playOneOff", url |-> u, sync |-> TRUE,
                before |-> OneOffBefore, born |-> serial + 1])
    /\ UNCHANGED <<initialized, loopingVoices, mode, sampleParams, recorderVars,
                   activeTrajectorySignals, sequenceVars, now, pending, fetches>>
    /\ updateAudioGraph

\* one-off mode, the sound being loaded, and core.render throws: the
\* exception leaves updateAudioGraph and playOneOffSound before setTimeout,
\* and the listener before recordEvent
TriggerPlayRenderFails(u) ==
    /\ initialized
    /\ mode = ONE_OFF
    /\ ~NeedsLoad(u)
    /\ activeVoices' = MapSet(EvictAtMax(activeVoices), VoiceId(u),
                              [node |-> createOneOffVoice(u), born |-> serial + 1])
    /\ serial' = serial + 1
    /\ Handler([op |-> "playOneOffRenderFails", url |-> u, voiceId |-> VoiceId(u),
                before |-> OneOffBefore, born |-> serial + 1])
    /\ UNCHANGED <<initialized, assetVars, loopingVoices, voiceTimeouts, timers,
                   mode, sampleParams, recorderVars, trajectoryVars, sequenceVars,
                   now, pending, fetches, rendered>>

\* the sound is not loaded: the handler suspends in fetch
TriggerLoad(u) ==
    /\ initialized
    /\ NeedsLoad(u)
    /\ mode = LOOPING => ~MapHas(loopingVoices, u)
    /\ StartLoad(IF mode = LOOPING THEN "toggleLoop" ELSE "playOneOff", u, NULL)
    /\ Handler([op |-> "load", url |-> u])
    /\ UNCHANGED <<initialized, assetVars, loopingVoices, oneOffVars, mode,
                   sampleParams, recorderVars, trajectoryVars, sequenceVars,
                   now, rendered>>

\* the load of a suspended playOneOffSound succeeds: the rest of the function
\* and of the listener run
PlayAfterLoad(c) ==
    /\ c \in pending
    /\ c.op = "playOneOff"
    /\ FinishLoad(c)
    /\ PlayLoaded(c.url)
    /\ RecordIfRecording(c.url)
    /\ Handler([op |-> "playOneOff", url |-> c.url, sync |-> FALSE,
                before |-> OneOffBefore, born |-> serial + 1])
    /\ UNCHANGED <<initialized, loopingVoices, mode, sampleParams, recorderVars,
                   activeTrajectorySignals, sequenceVars, now>>
    /\ updateAudioGraph

\* the load of a suspended toggleLoopingSound succeeds: isLooping was read as
\* false before the await, so the voice is created and stored
ToggleAfterLoad(c) ==
    /\ c \in pending
    /\ c.op = "toggleLoop"
    /\ FinishLoad(c)
    /\ loopingVoices' = ToggleOn(loopingVoices, c.url)
    /\ RecordIfRecording(c.url)
    /\ Handler([op |-> "toggleLoop", url |-> c.url, sync |-> FALSE,
                settled |-> ~MapHas(loopingVoices, c.url),
                before |-> LoopSet(loopingVoices),
                again |-> FALSE, first |-> {}])
    /\ UNCHANGED <<initialized, oneOffVars, mode, sampleParams, recorderVars,
                   activeTrajectorySignals, sequenceVars, now>>
    /\ updateAudioGraph

\* a load that records its asset as loaded before it is known to succeed
AbandonLoadMarked(c) ==
    /\ uploadedSamples' = uploadedSamples \cup {c.url}
    /\ UNCHANGED <<initialized, sampleDurations, registrations, loopingVoices,
                   oneOffVars, mode, sampleParams, recorderVars, trajectoryVars,
                   sequenceVars, rendered>>

\* what a failed load leaves of the state of the engines
AbandonLoad(c) ==
    UNCHANGED <<initialized, assetVars, loopingVoices, oneOffVars, mode,
                sampleParams, recorderVars, trajectoryVars, sequenceVars, rendered>>

\* what a handler compares before and after: the state of the engines
EngineState ==
    <<uploadedSamples, sampleDurations, loopingVoices, activeVoices, voiceTimeouts,
      timers, sequences, sequenceSignals, activeSequenceId, soloSequences,
      trajectories, activeTrajectorySignals, isRecording, currentRecordingId,
      recordingStartTime, mode>>

\* fetch, decodeAudioData or updateVirtualFileSystem rejects: the exception
\* leaves toggleLoopingSound / playOneOffSound and the listener, or is caught
\* by the onclick handler, which returns
LoadFails(c, stage) ==
    /\ c \in pending
    /\ pending' = pending \ {c}
    /\ AbandonLoad(c)
    /\ Handler([op |-> "loadFailed", url |-> c.url, of |-> c.op, stage |-> stage,
                before |-> EngineState])
    /\ UNCHANGED <<now, fetches>>

----------------------------------------------------------------------------
(* Expiry timers *)

\* a callback that leaves its voice in place
ExpireNone(t) == UNCHANGED <<activeVoices, voiceTimeouts>>

\* the callback set by playOneOffSound runs
ExpireVoice(t) ==
    /\ activeVoices' = MapDelete(activeVoices, t.voiceId)
    /\ voiceTimeouts' = MapDelete(voiceTimeouts, t.voiceId)

\* a timer runs once its time has come, after the timers set before it with
\* a delay that is not longer
TimerFires(t) ==
    /\ t \in timers
    /\ now >= t.due
    /\ \A o \in timers :
           o.id < t.id => BufferDuration(o.voiceId[1]) > BufferDuration(t.voiceId[1])
    /\ ExpireVoice(t)
    /\ timers' = timers \ {t}
    /\ Handler([op |-> "expire", voiceId |-> t.voiceId, id |-> t.id,
                before |-> OneOffBefore])
    /\ UNCHANGED <<initialized, assetVars, loopingVoices, serial, mode, sampleParams,
                   recorderVars, trajectoryVars, sequenceVars, now, pending,
                   fetches>>
    /\ updateAudioGraph

\* the same callback outside the budget of handler steps: a run uses up its
\* timer, so that the pending timers bound the runs
TimerRuns(t) ==
    /\ t \in timers
    /\ now >= t.due
    /\ \A o \in timers :
           o.id < t.id => BufferDuration(o.voiceId[1]) > BufferDuration(t.voiceId[1])
    /\ ExpireVoice(t)
    /\ timers' = timers \ {t}
    /\ last' = [op |-> "expire", voiceId |-> t.voiceId, id |-> t.id,
                before |-> OneOffBefore]
    /\ UNCHANGED <<initialized, assetVars, loopingVoices, serial, mode, sampleParams,
                   recorderVars, trajectoryVars, sequenceVars, now, pending,
                   fetches, steps>>
    /\ updateAudioGraph

----------------------------------------------------------------------------
(* Mode and sample parameters *)

\* what a mode change is compared on, the looping voices and the mode apart
OtherThanLoops ==
    <<uploadedSamples, sampleDurations, activeVoices, voiceTimeouts, timers,
      sequences, sequenceSignals, activeSequenceId, soloSequences, trajectories,
      activeTrajectorySignals, isRecording, currentRecordingId>>

\* the change listener of the mode radio buttons
ModeChange(m) ==
    /\ m # mode
    /\ mode' = m
    /\ Handler([op |-> "modeChange", mode |-> m, loops |-> Len(loopingVoices),
                before |-> OtherThanLoops])
    /\ UNCHANGED <<initialized, assetVars, loopingVoices, oneOffVars, sampleParams,
                   recorderVars, trajectoryVars, sequenceVars, now, pending,
                   fetches>>
    /\ updateAudioGraph

\* setMode of the earlier revision of the component: the looping voices are
\* cleared and the graph is rebuilt before this.mode is assigned
setMode(m) ==
    /\ m # mode
    /\ loopingVoices' = <<>>
    /\ rendered' = RenderCall(BuildGraph(mode, MapValues(loopingVoices'),
                                         [i \in DOMAIN activeVoices |-> activeVoices[i].v.node],
                                         MapValues(sequenceSignals),
                                         MapValues(activeTrajectorySignals)))
    /\ mode' = m
    /\ Handler([op |-> "modeChange", mode |-> m, loops |-> Len(loopingVoices),
                before |-> OtherThanLoops])
    /\ UNCHANGED <<initialized, assetVars, oneOffVars, sampleParams,
                   recorderVars, trajectoryVars, sequenceVars, now, pending,
                   fetches>>

\* stopTrajectoryRecording of the earlier revision of the component: besides
\* ending the recording it cancels every registered expiry timer and clears
\* the one-off and the looping voices before the graph is rebuilt (the
\* playback it schedules 50 ms later is a callback of its own)
stopTrajectoryRecording ==
    /\ isRecording
    /\ isRecording' = FALSE
    /\ timers' = {t \in timers : t.id \notin Range(MapValues(voiceTimeouts))}
    /\ voiceTimeouts' = <<>>
    /\ activeVoices' = <<>>
    /\ loopingVoices' = <<>>
    /\ Handler([op |-> "stopRecording", id |-> currentRecordingId,
                voices |-> Len(activeVoices)])
    /\ UNCHANGED <<initialized, assetVars, serial, mode, sampleParams,
                   currentRecordingId, trajectoryVars, sequenceVars, now, pending,
                   fetches>>
    /\ updateAudioGraph

\* Recreate all active looping voices with new parameters
RecreateLoops(loops, params) ==
    [i \in DOMAIN loops |->
        [k |-> loops[i].k,
         v |-> createLoopingVoice(loops[i].k, MapGet(sampleDurations, loops[i].k), params)]]

\* the input listeners of #playback-rate, #start-offset and #end-offset
SetSampleParam(field, value) ==
    /\ sampleParams[field] # value
    /\ sampleParams' = [sampleParams EXCEPT ![field] = value]
    /\ UNCHANGED <<initialized, assetVars, oneOffVars, mode, recorderVars,
                   trajectoryVars, sequenceVars, now, pending, fetches>>
    /\ loopingVoices' = RecreateLoops(loopingVoices, sampleParams')
    /\ Handler([op |-> "sampleParam", field |-> field, loops |-> Len(loopingVoices)])
    /\ IF Len(loopingVoices) > 0 THEN updateAudioGraph ELSE UNCHANGED rendered

----------------------------------------------------------------------------
(* Trajectories *)

\* Math.round(ms / 1000 * 100) for ms >= 0
RoundTicks(ms) == (ms + 5) \div 10

\* the seq of playTrajectory: one entry per recorded event
TrajectorySeq(events) ==
    [i \in DOMAIN events |->
        [tickTime |-> RoundTicks(events[i].time) + 1, value |-> i,
         soundUrl |-> events[i].soundUrl]]

\* a master sparseq whose loop starts at the tick of the first event
MasterSeqFromFirst(trajectoryId, seq) ==
    Node("sparseq",
         [key |-> <<"trajectory", trajectoryId, "master">>, seq |-> seq,
          loop |-> <<seq[1].tickTime, seq[Len(seq)].tickTime>>],
         <<Node("train", [rate |-> 100], <<>>), Silence>>)

\* the master sparseq of playTrajectory, looping from firstTick to latestEndpoint
MasterSeq(trajectoryId, seq) ==
    Node("sparseq",
         [key |-> <<"trajectory", trajectoryId, "master">>, seq |-> seq,
          loop |-> <<seq[1].tickTime - 1, seq[Len(seq)].tickTime>>],
         <<Node("train", [rate |-> 100], <<>>), Silence>>)

\* the player of the index-th event that has a sound (index counts from 1
\* here, from 0 in the source)
TrajectoryPlayer(trajectoryId, masterSeq, event, index) ==
    Node("sample",
         [channels |-> 1, key |-> <<"player", trajectoryId, index - 1>>,
          path |-> event.soundUrl, mode |-> "trigger",
          playbackRate |-> sampleParams.playbackRate,
          startOffset |-> sampleParams.startOffset,
          endOffset |-> sampleParams.endOffset],
         <<Node("eq", <<>>,
                <<masterSeq,
                  ElConst([key |-> <<"event", trajectoryId, index - 1, "value">>,
                           value |-> Frac(index, 1)])>>),
           ElConst([key |-> <<"rate", trajectoryId, index - 1>>, value |-> Frac(1, 1)])>>)

\* the signal playTrajectory stores for a trajectory with at least one event
TrajectorySignal(trajectoryId, events) ==
    LET seq == TrajectorySeq(events)
        masterSeq == MasterSeq(trajectoryId, seq)
        sounds == SelectSeq(seq, LAMBDA e : e.soundUrl # NoUrl)
        players == [i \in DOMAIN sounds |->
                        TrajectoryPlayer(trajectoryId, masterSeq, sounds[i], i)]
        gain == ElConst([key |-> <<"gain", trajectoryId>>, value |-> Frac(1, maxVoices)])
    IN  ElMul(MixOf(players), gain)

\* playTrajectory
playTrajectory(trajectoryId, trajs) ==
    IF ~MapHas(trajs, trajectoryId) \/ Len(MapGet(trajs, trajectoryId).events) = 0
    THEN /\ trajectories' = trajs
         /\ UNCHANGED <<activeTrajectorySignals, rendered>>
    ELSE /\ trajectories' = MapSet(trajs, trajectoryId,
                                   [MapGet(trajs, trajectoryId) EXCEPT !.isPlaying = TRUE])
         /\ activeTrajectorySignals' =
                MapSet(activeTrajectorySignals, trajectoryId,
                       TrajectorySignal(trajectoryId, MapGet(trajs, trajectoryId).events))
         /\ updateAudioGraph

\* the click on #start-recording (the button is disabled while recording)
StartRecording ==
    /\ ~isRecording
    /\ isRecording' = TRUE
    /\ currentRecordingId' = now
    /\ recordingStartTime' = NULL
    /\ trajectories' = MapSet(trajectories, now, [events |-> <<>>, isPlaying |-> FALSE])
    /\ Handler([op |-> "startRecording", id |-> now])
    /\ UNCHANGED <<initialized, assetVars, loopingVoices, oneOffVars, mode,
                   sampleParams, activeTrajectorySignals, sequenceVars, now,
                   pending, fetches, rendered>>

\* the click on #stop-recording (enabled while recording) on a trajectory
\* that is still in the registry: the end marker is pushed and playback starts
StopRecording ==
    /\ isRecording
    /\ currentRecordingId # NULL
    /\ MapHas(trajectories, currentRecordingId)
    /\ LET t == MapGet(trajectories, currentRecordingId)
           currentTime == now - recordingStartTime
           marked == MapSet(trajectories, currentRecordingId,
                            [t EXCEPT !.events =
                                Append(@, [time |-> currentTime, soundUrl |-> NoUrl])])
       IN  /\ isRecording' = FALSE
           /\ currentRecordingId' = NULL
           /\ Handler([op |-> "stopRecording", id |-> currentRecordingId,
                       sounds |-> Len(t.events)])
           /\ UNCHANGED <<initialized, assetVars, loopingVoices, oneOffVars, mode,
                          sampleParams, recordingStartTime, sequenceVars, now,
                          pending, fetches>>
           /\ playTrajectory(currentRecordingId, marked)

\* the same click after the trajectory was cleared: trajectory.events throws
StopRecordingThrows ==
    /\ isRecording
    /\ currentRecordingId # NULL
    /\ ~MapHas(trajectories, currentRecordingId)
    /\ Handler([op |-> "stopRecordingThrows", id |-> currentRecordingId])
    /\ UNCHANGED <<initialized, assetVars, loopingVoices, oneOffVars, mode,
                   sampleParams, recorderVars, trajectoryVars, sequenceVars, now,
                   pending, fetches, rendered>>

\* a stop that silences every trajectory
stopTrajectoryPlaybackAll(trajectoryId) ==
    IF MapHas(trajectories, trajectoryId)
    THEN /\ activeTrajectorySignals' = <<>>
         /\ updateAudioGraph
    ELSE UNCHANGED <<activeTrajectorySignals, rendered>>

\* stopTrajectoryPlayback
stopTrajectoryPlayback(trajectoryId) ==
    IF MapHas(trajectories, trajectoryId)
    THEN /\ activeTrajectorySignals' = MapDelete(activeTrajectorySignals, trajectoryId)
         /\ updateAudioGraph
    ELSE UNCHANGED <<activeTrajectorySignals, rendered>>

\* the Stop button of a trajectory item
StopTrajectory(trajectoryId) ==
    /\ trajectories' =
          IF MapHas(trajectories, trajectoryId)
          THEN MapSet(trajectories, trajectoryId,
                      [MapGet(trajectories, trajectoryId) EXCEPT !.isPlaying = FALSE])
          ELSE trajectories
    /\ Handler([op |-> "stopTrajectory", id |-> trajectoryId,
                known |-> MapHas(trajectories, trajectoryId)])
    /\ UNCHANGED <<initialized, assetVars, loopingVoices, oneOffVars, mode,
                   sampleParams, recorderVars, recordingStartTime, sequenceVars,
                   now, pending, fetches>>
    /\ stopTrajectoryPlayback(trajectoryId)

\* the Clear button of a trajectory item: clearTrajectory
ClearTrajectory(trajectoryId) ==
    /\ trajectories' = MapDelete(trajectories, trajectoryId)
    /\ Handler([op |-> "clearTrajectory", id |-> trajectoryId,
                known |-> MapHas(trajectories, trajectoryId)])
    /\ UNCHANGED <<initialized, assetVars, loopingVoices, oneOffVars, mode,
                   sampleParams, recorderVars, recordingStartTime, sequenceVars,
                   now, pending, fetches>>
    /\ stopTrajectoryPlayback(trajectoryId)

----------------------------------------------------------------------------
(* class Sequence *)

\* new Sequence() left with the bpm of its constructor
NewSequenceDefault(oid, bpm) ==
    [oid |-> oid, elements |-> <<>>, bpm |-> 120, bars |-> "1 bar",
     isRecording |-> FALSE, volume |-> <<1, 1>>, isMuted |-> FALSE,
     isSolo |-> FALSE, startOffset |-> <<0, 1>>]

\* new Sequence(), its bpm then set to the global bpm; oid tells the objects apart
NewSequence(oid, bpm) ==
    [oid |-> oid, elements |-> <<>>, bpm |-> bpm, bars |-> "1 bar",
     isRecording |-> FALSE, volume |-> <<1, 1>>, isMuted |-> FALSE,
     isSolo |-> FALSE, startOffset |-> <<0, 1>>]

\* Sequence.addElement
addElement(sequence, soundUrl) ==
    [sequence EXCEPT !.elements =
        Append(@, [soundUrl |-> soundUrl, offset |-> <<1, 1>>, shift |-> 0,
                   stretch |-> <<1, 1>>, duration |-> <<1, 1>>])]

\* Sequence.setOffset, setShift, setStretch and setDuration (index from 0 in
\* the source, from 1 here)
setElementField(sequence, index, field, value) ==
    IF index >= 1 /\ index <= Len(sequence.elements)
    THEN [sequence EXCEPT !.elements[index][field] = value]
    ELSE sequence

\* Sequence.removeElement
removeElement(sequence, index) ==
    IF index >= 1 /\ index <= Len(sequence.elements)
    THEN [sequence EXCEPT !.elements =
            [i \in 1..(Len(@) - 1) |-> IF i < index THEN @[i] ELSE @[i + 1]]]
    ELSE sequence

\* a table that counts whole bars only
BarMultiplierWhole(bars) ==
    CASE bars = "2 bars" -> <<2, 1>>
      [] bars = "3 bars" -> <<3, 1>>
      [] bars = "4 bars" -> <<4, 1>>
      [] bars = "8 bars" -> <<8, 1>>
      [] OTHER -> <<1, 1>>

\* the barMultiplier table of getDurationInSeconds, 1 for any other value
BarMultiplier(bars) ==
    CASE bars = "1/4 bar" -> <<1, 4>>
      [] bars = "1/2 bar" -> <<1, 2>>
      [] bars = "1 bar" -> <<1, 1>>
      [] bars = "2 bars" -> <<2, 1>>
      [] bars = "3 bars" -> <<3, 1>>
      [] bars = "4 bars" -> <<4, 1>>
      [] bars = "8 bars" -> <<8, 1>>
      [] OTHER -> <<1, 1>>

\* Sequence.getDurationInSeconds: (60 / bpm) * beatsPerBar * barMultiplier
getDurationInSeconds(sequence) ==
    RMul(RMul(Frac(60, sequence.bpm), <<4, 1>>), BarMultiplier(sequence.bars))

RECURSIVE SumOffsets(_, _)
SumOffsets(elements, n) ==
    IF n = 0 THEN <<0, 1>> ELSE RAdd(SumOffsets(elements, n - 1), elements[n].offset)

\* positions that space the elements evenly, whatever their offsets
getElementTimesEven(sequence) ==
    [i \in DOMAIN sequence.elements |-> Frac(i - 1, Len(sequence.elements))]

\* Sequence.getElementTimes
getElementTimes(sequence) ==
    [i \in DOMAIN sequence.elements |->
        RDiv(SumOffsets(sequence.elements, i - 1),
             SumOffsets(sequence.elements, Len(sequence.elements)))]

----------------------------------------------------------------------------
(* Sequence compilation *)

\* the loaded assets createSequenceVoices reads
Assets == [uploaded |-> uploadedSamples, durations |-> sampleDurations]

\* a sampleseq2 that always steps off at the end of the cycle
SequenceVoiceCut(sequence, index, assets) ==
    LET element == sequence.elements[index]
        sequenceDuration == getDurationInSeconds(sequence)
        sampleDuration == Frac(MapGet(assets.durations, element.soundUrl), 1000)
        startTime == RAdd(RMul(sequence.startOffset, sequenceDuration),
                          RMul(RMul(getElementTimes(sequence)[index],
                                    RSub(<<1, 1>>, sequence.startOffset)),
                               sequenceDuration))
    IN  Node("sampleseq2",
             [path |-> element.soundUrl,
              duration |-> RMul(sampleDuration, element.duration),
              seq |-> <<[time |-> startTime, value |-> 1],
                        [time |-> sequenceDuration, value |-> 0]>>,
              shift |-> element.shift, stretch |-> element.stretch],
             <<Node("mod", <<>>,
                    <<Node("div", <<>>, <<Node("time", <<>>, <<>>), Node("sr", <<>>, <<>>)>>),
                      ElConst([value |-> sequenceDuration])>>)>>)

\* the sampleseq2 of one element of createSequenceVoices
SequenceVoice(sequence, index, assets) ==
    LET element == sequence.elements[index]
        sequenceDuration == getDurationInSeconds(sequence)
        sampleDuration == Frac(MapGet(assets.durations, element.soundUrl), 1000)
        startTime == RAdd(RMul(sequence.startOffset, sequenceDuration),
                          RMul(RMul(getElementTimes(sequence)[index],
                                    RSub(<<1, 1>>, sequence.startOffset)),
                               sequenceDuration))
        endTime == RMax(RAdd(startTime, sampleDuration), sequenceDuration)
    IN  Node("sampleseq2",
             [path |-> element.soundUrl,
              duration |-> RMul(sampleDuration, element.duration),
              seq |-> <<[time |-> startTime, value |-> 1],
                        [time |-> endTime, value |-> 0]>>,
              shift |-> element.shift, stretch |-> element.stretch],
             <<Node("mod", <<>>,
                    <<Node("div", <<>>, <<Node("time", <<>>, <<>>), Node("sr", <<>>, <<>>)>>),
                      ElConst([value |-> sequenceDuration])>>)>>)

\* the mute / solo rule of createSequenceVoices
IsSilent(sequence, solo) == sequence.isMuted \/ (solo # {} /\ ~sequence.isSolo)

\* createSequenceVoices: NoSignal stands for null
createSequenceVoices(sequence, solo, assets) ==
    IF Len(sequence.elements) = 0 THEN NoSignal
    ELSE IF IsSilent(sequence, solo) THEN Silence
    ELSE LET loaded == SelectSeq([i \in DOMAIN sequence.elements |-> i],
                                 LAMBDA i : sequence.elements[i].soundUrl \in assets.uploaded)
             voices == [j \in DOMAIN loaded |-> SequenceVoice(sequence, loaded[j], assets)]
         IN  IF Len(voices) = 0 THEN NoSignal
             ELSE ElMul(MixOf(voices),
                        ElConst([value |-> RDiv(sequence.volume, <<maxVoices, 1>>)]))

\* updateSequencePlayback without its render call: the stored signals after
\* sequence sequenceId of seqs has been compiled again
Recompiled(signals, seqs, solo, assets, sequenceId) ==
    IF ~MapHas(seqs, sequenceId) THEN signals
    ELSE LET signal == createSequenceVoices(MapGet(seqs, sequenceId), solo, assets)
         IN  IF signal # NoSignal THEN MapSet(signals, sequenceId, signal)
             ELSE MapDelete(signals, sequenceId)

\* this.sequences.forEach((_, id) => this.updateSequencePlayback(id))
RECURSIVE RecompiledAll(_, _, _, _, _)
RecompiledAll(signals, seqs, solo, assets, n) ==
    IF n = 0 THEN signals
    ELSE Recompiled(RecompiledAll(signals, seqs, solo, assets, n - 1),
                    seqs, solo, assets, seqs[n].k)

----------------------------------------------------------------------------
(* Sequence controls *)

\* values the sliders and selects of the sequence controls are moved to
BarsValues == {"1/4 bar", "2 bars"}
VolumeValues == {<<1, 2>>, <<0, 1>>}
StartOffsetValues == {<<1, 2>>}
BpmValues == {60}
BarsOptions == {"1/4 bar", "1/2 bar", "1 bar", "2 bars", "3 bars", "4 bars", "8 bars"}
TempoValues == {10, 60, 137, 300}
ElementValues ==
    [offset |-> {<<1, 2>>, <<2, 1>>}, shift |-> {12}, stretch |-> {<<1, 2>>},
     duration |-> {<<2, 1>>}]

Rows(sequenceId) ==
    IF MapHas(controls.rows, sequenceId) THEN MapGet(controls.rows, sequenceId) ELSE 0

\* updateSequenceElementsUI: one row per element of the sequence
ShowRows(sequenceId, seqs) ==
    [controls EXCEPT !.rows = MapSet(@, sequenceId, Len(MapGet(seqs, sequenceId).elements))]

\* a control handler that changes sequence sequenceId and calls
\* updateSequencePlayback(sequenceId)
ChangeSequence(sequenceId, changed, name) ==
    /\ sequences' = MapSet(sequences, sequenceId, changed)
    /\ sequenceSignals' =
          Recompiled(sequenceSignals, sequences', soloSequences, Assets, sequenceId)
    /\ Handler([op |-> name, id |-> sequenceId])
    /\ UNCHANGED <<initialized, assetVars, loopingVoices, oneOffVars, mode,
                   sampleParams, recorderVars, trajectoryVars, globalBpm,
                   activeSequenceId, soloSequences, controls, objects, now,
                   pending, fetches>>
    /\ updateAudioGraph

\* the click on #add-sequence
AddSequence ==
    /\ objects' = objects + 1
    /\ sequences' = MapSet(sequences, now, NewSequence(objects + 1, globalBpm))
    /\ controls' = [controls EXCEPT !.rows = MapSet(@, now, 0)]
    /\ Handler([op |-> "addSequence", id |-> now])
    /\ UNCHANGED <<initialized, assetVars, loopingVoices, oneOffVars, mode,
                   sampleParams, recorderVars, trajectoryVars, sequenceSignals,
                   globalBpm, activeSequenceId, soloSequences, now, pending,
                   fetches, rendered>>

\* the click on the Activate button of sequence sequenceId
Activate(sequenceId) ==
    /\ MapHas(sequences, sequenceId)
    /\ LET deactivated ==
               IF /\ activeSequenceId # NULL
                  /\ activeSequenceId # sequenceId
                  /\ MapHas(sequences, activeSequenceId)
               THEN MapSet(sequences, activeSequenceId,
                           [MapGet(sequences, activeSequenceId) EXCEPT !.isRecording = FALSE])
               ELSE sequences
           off == activeSequenceId = sequenceId
       IN  /\ activeSequenceId' = IF off THEN NULL ELSE sequenceId
           /\ sequences' = MapSet(deactivated, sequenceId,
                                  [MapGet(deactivated, sequenceId) EXCEPT !.isRecording = ~off])
           /\ controls' = [controls EXCEPT !.clear =
                                IF off THEN @ \ {sequenceId} ELSE @ \cup {sequenceId}]
    /\ Handler([op |-> "activate", id |-> sequenceId, previous |-> activeSequenceId])
    /\ UNCHANGED <<initialized, assetVars, loopingVoices, oneOffVars, mode,
                   sampleParams, recorderVars, trajectoryVars, sequenceSignals,
                   globalBpm, soloSequences, objects, now, pending, fetches,
                   rendered>>

\* the click on the Clear button of sequence sequenceId
ClearSequence(sequenceId) ==
    /\ sequenceId \in controls.clear
    /\ MapHas(sequences, sequenceId)
    /\ sequences' = MapSet(sequences, sequenceId,
                           [MapGet(sequences, sequenceId) EXCEPT
                                !.elements = <<>>, !.isRecording = FALSE])
    /\ sequenceSignals' = MapDelete(sequenceSignals, sequenceId)
    /\ activeSequenceId' = NULL
    /\ controls' = [controls EXCEPT !.rows = MapSet(@, sequenceId, 0)]
    /\ Handler([op |-> "clearSequence", id |-> sequenceId])
    /\ UNCHANGED <<initialized, assetVars, loopingVoices, oneOffVars, mode,
                   sampleParams, recorderVars, trajectoryVars, globalBpm,
                   soloSequences, objects, now, pending, fetches>>
    /\ updateAudioGraph

\* the click on the Remove button of sequence sequenceId
RemoveSequence(sequenceId) ==
    /\ MapHas(sequences, sequenceId)
    /\ sequences' = MapDelete(sequences, sequenceId)
    /\ sequenceSignals' = MapDelete(sequenceSignals, sequenceId)
    /\ controls' = [clear |-> controls.clear \ {sequenceId},
                    rows |-> MapDelete(controls.rows, sequenceId)]
    /\ Handler([op |-> "removeSequence", id |-> sequenceId])
    /\ UNCHANGED <<initialized, assetVars, loopingVoices, oneOffVars, mode,
                   sampleParams, recorderVars, trajectoryVars, globalBpm,
                   activeSequenceId, soloSequences, objects, now, pending,
                   fetches>>
    /\ updateAudioGraph

\* the change listener of the bars select
SetBars(sequenceId, value) ==
    /\ MapHas(sequences, sequenceId)
    /\ MapGet(sequences, sequenceId).bars # value
    /\ ChangeSequence(sequenceId, [MapGet(sequences, sequenceId) EXCEPT !.bars = value],
                      "setBars")

\* the same change with core.render throwing in updateSequencePlayback: its
\* catch block deletes the stored signal and calls updateAudioGraph again,
\* whose render succeeds (retry) or throws out of the listener
SetBarsRenderFails(sequenceId, value, retry) ==
    /\ MapHas(sequences, sequenceId)
    /\ MapGet(sequences, sequenceId).bars # value
    /\ createSequenceVoices([MapGet(sequences, sequenceId) EXCEPT !.bars = value],
                            soloSequences, Assets) # NoSignal
    /\ sequences' = MapSet(sequences, sequenceId,
                           [MapGet(sequences, sequenceId) EXCEPT !.bars = value])
    /\ sequenceSignals' = MapDelete(sequenceSignals, sequenceId)
    /\ Handler([op |-> "setBarsRenderFails", id |-> sequenceId, retry |-> retry])
    /\ UNCHANGED <<initialized, assetVars, loopingVoices, oneOffVars, mode,
                   sampleParams, recorderVars, trajectoryVars, globalBpm,
                   activeSequenceId, soloSequences, controls, objects, now,
                   pending, fetches>>
    /\ IF retry THEN updateAudioGraph ELSE UNCHANGED rendered

\* the input listener of the volume slider
SetVolume(sequenceId, value) ==
    /\ MapHas(sequences, sequenceId)
    /\ MapGet(sequences, sequenceId).volume # value
    /\ ChangeSequence(sequenceId, [MapGet(sequences, sequenceId) EXCEPT !.volume = value],
                      "setVolume")

\* the input listener of the start offset slider
SetStartOffset(sequenceId, value) ==
    /\ MapHas(sequences, sequenceId)
    /\ MapGet(sequences, sequenceId).startOffset # value
    /\ ChangeSequence(sequenceId,
                      [MapGet(sequences, sequenceId) EXCEPT !.startOffset = value],
                      "setStartOffset")

\* the click on the Mute button
ToggleMute(sequenceId) ==
    /\ MapHas(sequences, sequenceId)
    /\ ChangeSequence(sequenceId,
                      [MapGet(sequences, sequenceId) EXCEPT !.isMuted = ~@], "mute")

\* the input listeners of the offset, shift, stretch and duration sliders of
\* a row
SetElement(sequenceId, index, field, value) ==
    /\ MapHas(sequences, sequenceId)
    /\ index \in 1..Rows(sequenceId)
    /\ ChangeSequence(sequenceId,
                      setElementField(MapGet(sequences, sequenceId), index, field, value),
                      "setElement")

\* the click on the remove button of a row
RemoveElement(sequenceId, index) ==
    /\ MapHas(sequences, sequenceId)
    /\ index \in 1..Rows(sequenceId)
    /\ index <= Len(MapGet(sequences, sequenceId).elements)
    /\ sequences' = MapSet(sequences, sequenceId,
                           removeElement(MapGet(sequences, sequenceId), index))
    /\ controls' = ShowRows(sequenceId, sequences')
    /\ sequenceSignals' =
          Recompiled(sequenceSignals, sequences', soloSequences, Assets, sequenceId)
    /\ Handler([op |-> "removeElement", id |-> sequenceId])
    /\ UNCHANGED <<initialized, assetVars, loopingVoices, oneOffVars, mode,
                   sampleParams, recorderVars, trajectoryVars, globalBpm,
                   activeSequenceId, soloSequences, objects, now, pending,
                   fetches>>
    /\ updateAudioGraph

\* the click on the Solo button: the flag and the solo set change, then every
\* sequence is compiled again
ToggleSolo(sequenceId) ==
    /\ MapHas(sequences, sequenceId)
    /\ sequences' = MapSet(sequences, sequenceId,
                           [MapGet(sequences, sequenceId) EXCEPT !.isSolo = ~@])
    /\ soloSequences' = IF MapGet(sequences', sequenceId).isSolo
                        THEN soloSequences \cup {sequenceId}
                        ELSE soloSequences \ {sequenceId}
    /\ sequenceSignals' =
          RecompiledAll(sequenceSignals, sequences', soloSequences', Assets, Len(sequences'))
    /\ Handler([op |-> "solo", id |-> sequenceId])
    /\ UNCHANGED <<initialized, assetVars, loopingVoices, oneOffVars, mode,
                   sampleParams, recorderVars, trajectoryVars, globalBpm,
                   activeSequenceId, controls, objects, now, pending, fetches>>
    /\ updateAudioGraph

\* the input listener of #global-bpm: every sequence gets the bpm and is
\* compiled again; nothing is rendered when there is no sequence
SetGlobalBpm(value) ==
    /\ globalBpm # value
    /\ globalBpm' = value
    /\ sequences' = [i \in DOMAIN sequences |->
                        [k |-> sequences[i].k, v |-> [sequences[i].v EXCEPT !.bpm = value]]]
    /\ sequenceSignals' =
          RecompiledAll(sequenceSignals, sequences', soloSequences, Assets, Len(sequences'))
    /\ Handler([op |-> "globalBpm", bpm |-> value])
    /\ UNCHANGED <<initialized, assetVars, loopingVoices, oneOffVars, mode,
                   sampleParams, recorderVars, trajectoryVars, activeSequenceId,
                   soloSequences, controls, objects, now, pending, fetches>>
    /\ IF Len(sequences) > 0 THEN updateAudioGraph ELSE UNCHANGED rendered

----------------------------------------------------------------------------
(* Adding elements to the active sequence *)

\* the sequence the onclick handler reads before its await
Recording ==
    /\ initialized
    /\ activeSequenceId # NULL
    /\ MapHas(sequences, activeSequenceId)
    /\ MapGet(sequences, activeSequenceId).isRecording

\* the end of the onclick handler: the element goes to the Sequence object
\* read before the await (oid), the rows and the signal of the sequence that
\* is active now are refreshed; updateSequenceElementsUI throws when no
\* sequence of the page is active now
AddToSequence(oid, soundUrl, assets) ==
    LET seqs == [i \in DOMAIN sequences |->
                    IF sequences[i].v.oid = oid
                    THEN [k |-> sequences[i].k, v |-> addElement(sequences[i].v, soundUrl)]
                    ELSE sequences[i]]
    IN  /\ sequences' = seqs
        /\ IF activeSequenceId # NULL /\ MapHas(seqs, activeSequenceId)
           THEN /\ controls' = ShowRows(activeSequenceId, seqs)
                /\ sequenceSignals' = Recompiled(sequenceSignals, seqs, soloSequences,
                                                 assets, activeSequenceId)
                /\ updateAudioGraph
           ELSE UNCHANGED <<controls, sequenceSignals, rendered>>

\* the click on an element whose sample is loaded
ClickElement(u) ==
    /\ Recording
    /\ ~NeedsLoad(u)
    /\ Handler([op |-> "addElement", url |-> u, sync |-> TRUE,
                id |-> activeSequenceId, oid |-> MapGet(sequences, activeSequenceId).oid])
    /\ UNCHANGED <<initialized, assetVars, loopingVoices, oneOffVars, mode,
                   sampleParams, recorderVars, trajectoryVars, globalBpm,
                   activeSequenceId, soloSequences, objects, now, pending,
                   fetches>>
    /\ AddToSequence(MapGet(sequences, activeSequenceId).oid, u, Assets)

\* the click on an element whose sample is not loaded: the handler is
\* suspended in the load
ClickLoad(u) ==
    /\ Recording
    /\ NeedsLoad(u)
    /\ StartLoad("addElement", u, MapGet(sequences, activeSequenceId).oid)
    /\ Handler([op |-> "load", url |-> u])
    /\ UNCHANGED <<initialized, assetVars, loopingVoices, oneOffVars, mode,
                   sampleParams, recorderVars, trajectoryVars, sequenceVars,
                   now, rendered>>

\* the load of a suspended onclick handler succeeds
AddAfterLoad(c) ==
    /\ c \in pending
    /\ c.op = "addElement"
    /\ FinishLoad(c)
    /\ Handler([op |-> "addElement", url |-> c.url, sync |-> FALSE,
                id |-> activeSequenceId, oid |-> c.target])
    /\ UNCHANGED <<initialized, loopingVoices, oneOffVars, mode, sampleParams,
                   recorderVars, trajectoryVars, globalBpm, activeSequenceId,
                   soloSequences, objects, now>>
    /\ AddToSequence(c.target, c.url,
                     [uploaded |-> uploadedSamples', durations |-> sampleDurations'])

----------------------------------------------------------------------------
(* The component *)

Stages == {"fetch", "decodeAudioData", "updateVirtualFileSystem"}

\* the events of the voices, the assets and the clock
VoiceEvents ==
    \/ Tick
    \/ InitializeAudio
    \/ \E u \in Urls : \/ TriggerUninitialized(u)
                        \/ TriggerToggle(u)
                        \/ TriggerPlay(u)
                        \/ TriggerPlayRenderFails(u)
                        \/ TriggerLoad(u)
    \/ \E c \in pending : \/ PlayAfterLoad(c)
                           \/ ToggleAfterLoad(c)
                           \/ AddAfterLoad(c)
                           \/ \E stage \in Stages : LoadFails(c, stage)
    \/ \E t \in timers : TimerFires(t)
    \/ \E m \in Modes : ModeChange(m)
    \/ \E field \in DOMAIN ParamValues :
           \E value \in ParamValues[field] : SetSampleParam(field, value)

\* the events of the trajectory recorder and registry
TrajectoryEvents ==
    \/ StartRecording
    \/ StopRecording
    \/ StopRecordingThrows
    \/ \E id \in MapKeySet(trajectories) : StopTrajectory(id) \/ ClearTrajectory(id)

\* the events of the sequence controls
SequenceEvents ==
    \/ AddSequence
    \/ \E value \in BpmValues : SetGlobalBpm(value)
    \/ \E u \in Urls : ClickElement(u) \/ ClickLoad(u)
    \/ \E id \in MapKeySet(sequences) :
           \/ Activate(id)
           \/ ClearSequence(id)
           \/ RemoveSequence(id)
           \/ ToggleMute(id)
           \/ ToggleSolo(id)
           \/ \E value \in BarsValues :
                  \/ SetBars(id, value)
                  \/ \E retry \in BOOLEAN : SetBarsRenderFails(id, value, retry)
           \/ \E value \in VolumeValues : SetVolume(id, value)
           \/ \E value \in StartOffsetValues : SetStartOffset(id, value)
           \/ \E index \in 1..Rows(id) :
                  \/ RemoveElement(id, index)
                  \/ \E field \in DOMAIN ElementValues :
                         \E value \in ElementValues[field] :
                            SetElement(id, index, field, value)

\* every event of the component
Next ==
    \/ VoiceEvents
    \/ TrajectoryEvents
    \/ SequenceEvents

Spec == Init /\ [][Next]_vars

(* The events of the component taken an engine at a time: each of the      *)
(* specifications below lets the page produce the events of one part of    *)
(* the component only.                                                      *)

\* one-off voices: triggers in one-off mode, loads, the clock and the timers
NextOneOff ==
    \/ Tick
    \/ InitializeAudio
    \/ \E u \in Urls : TriggerPlay(u) \/ TriggerLoad(u)
    \/ \E c \in pending : PlayAfterLoad(c)
    \/ \E t \in timers : TimerFires(t)

SpecOneOff == Init /\ [][NextOneOff]_vars

\* both kinds of voices and the mode, at one reading of the clock
NextVoices ==
    \/ InitializeAudio
    \/ \E u \in Urls : TriggerToggle(u) \/ TriggerPlay(u) \/ TriggerLoad(u)
    \/ \E c \in pending : \/ PlayAfterLoad(c)
                           \/ ToggleAfterLoad(c)
                           \/ \E stage \in Stages : LoadFails(c, stage)
    \/ \E m \in Modes : ModeChange(m)

SpecVoices == Init /\ [][NextVoices]_vars

\* the same events on the earlier revision of the component, where the mode
\* radio buttons call setMode
NextRevision ==
    \/ InitializeAudio
    \/ \E u \in Urls : TriggerToggle(u) \/ TriggerPlay(u) \/ TriggerLoad(u)
    \/ \E c \in pending : \/ PlayAfterLoad(c)
                           \/ ToggleAfterLoad(c)
                           \/ \E stage \in Stages : LoadFails(c, stage)
    \/ \E m \in Modes : setMode(m)

SpecRevision == Init /\ [][NextRevision]_vars

\* the recorder of that earlier revision next to the one-off voices: the stop
\* button calls the stopTrajectoryRecording of that revision
NextRevisionRecorder ==
    \/ Tick
    \/ InitializeAudio
    \/ \E u \in Urls : TriggerPlay(u) \/ TriggerLoad(u)
    \/ \E c \in pending : PlayAfterLoad(c)
    \/ \E t \in timers : TimerFires(t)
    \/ StartRecording
    \/ stopTrajectoryRecording

SpecRevisionRecorder == Init /\ [][NextRevisionRecorder]_vars

\* sequences being added, filled, muted, soloed and removed
NextRemoval ==
    \/ Tick
    \/ InitializeAudio
    \/ AddSequence
    \/ ClickElement("u1") \/ ClickLoad("u1")
    \/ \E c \in pending : AddAfterLoad(c)
    \/ \E id \in MapKeySet(sequences) :
           Activate(id) \/ ToggleMute(id) \/ ToggleSolo(id) \/ RemoveSequence(id)

SpecRemoval == Init /\ [][NextRemoval]_vars

\* the three operations that load assets, and the loads failing
NextLoads ==
    \/ InitializeAudio
    \/ AddSequence
    \/ \E id \in MapKeySet(sequences) : Activate(id)
    \/ \E m \in Modes : ModeChange(m)
    \/ \E u \in Urls : \/ TriggerToggle(u) \/ TriggerPlay(u) \/ TriggerLoad(u)
                        \/ ClickElement(u) \/ ClickLoad(u)
    \/ \E c \in pending : \/ PlayAfterLoad(c)
                           \/ ToggleAfterLoad(c)
                           \/ AddAfterLoad(c)
                           \/ \E stage \in Stages : LoadFails(c, stage)

SpecLoads == Init /\ [][NextLoads]_vars

\* the recorder and the registry of trajectories, with triggers before and
\* after the audio is initialized, at one reading of the clock
NextRecorder ==
    \/ InitializeAudio
    \/ \E u \in Urls : TriggerUninitialized(u) \/ TriggerLoad(u)
    \/ \E c \in pending : PlayAfterLoad(c)
    \/ TrajectoryEvents

SpecRecorder == Init /\ [][NextRecorder]_vars

\* sequences being added, activated, filled, muted and soloed
NextSolo ==
    \/ Tick
    \/ InitializeAudio
    \/ AddSequence
    \/ \E u \in Urls : ClickElement(u) \/ ClickLoad(u)
    \/ \E id \in MapKeySet(sequences) : Activate(id) \/ ToggleMute(id) \/ ToggleSolo(id)
    \/ \E c \in pending : AddAfterLoad(c)

SpecSolo == Init /\ [][NextSolo]_vars

\* everything that reaches the graph: voices of both kinds, the mode,
\* recorded trajectories and sequences, at one reading of the clock
NextGraph ==
    \/ InitializeAudio
    \/ \E u \in Urls : \/ TriggerToggle(u) \/ TriggerPlay(u) \/ TriggerLoad(u)
                        \/ ClickElement(u) \/ ClickLoad(u)
    \/ \E c \in pending : PlayAfterLoad(c) \/ ToggleAfterLoad(c) \/ AddAfterLoad(c)
    \/ \E m \in Modes : ModeChange(m)
    \/ StartRecording
    \/ StopRecording
    \/ \E id \in MapKeySet(trajectories) : StopTrajectory(id) \/ ClearTrajectory(id)
    \/ AddSequence
    \/ \E id \in MapKeySet(sequences) :
           Activate(id) \/ ClearSequence(id) \/ RemoveSequence(id)

SpecGraph == Init /\ [][NextGraph]_vars

\* the recorder with the clock running: triggers are recorded at different
\* readings of Date.now(), on a page whose audio is not initialized
NextTiming ==
    \/ Tick
    \/ \E u \in Urls : TriggerUninitialized(u)
    \/ TrajectoryEvents

SpecTiming == Init /\ [][NextTiming]_vars

\* the recorder with the clock running: one sound is triggered while the
\* audio is not initialized and recorded at once, the other once it is and
\* recorded when its load completes; trajectories are cleared by their button
NextRecording ==
    \/ Tick
    \/ InitializeAudio
    \/ TriggerUninitialized("u1")
    \/ TriggerLoad("u2")
    \/ \E c \in pending : PlayAfterLoad(c)
    \/ StartRecording
    \/ StopRecording
    \/ StopRecordingThrows
    \/ \E id \in MapKeySet(trajectories) : ClearTrajectory(id)

SpecRecording == Init /\ [][NextRecording]_vars

\* the ids stopTrajectoryPlayback and clearTrajectory can be called with
TrajectoryIds == {Clock[i] : i \in DOMAIN Clock}

\* the registry of trajectories: recordings of one sound at different
\* readings of the clock, stopped and cleared by id, ids of no trajectory
\* included
NextRegistry ==
    \/ Tick
    \/ TriggerUninitialized("u1")
    \/ StartRecording
    \/ StopRecording
    \/ StopRecordingThrows
    \/ \E id \in TrajectoryIds : StopTrajectory(id) \/ ClearTrajectory(id)

SpecRegistry == Init /\ [][NextRegistry]_vars

\* the sound's duration ends within the readings of the clock
CanExpire(u) == now + BufferDuration(u) <= Clock[Len(Clock)]

\* one-off voices and their timers to the end: triggers whose timer comes due
\* within the readings of the clock, one load at a time, the clock moving on
\* and every pending timer getting to run
NextExpiry ==
    \/ Tick
    \/ InitializeAudio
    \/ \E u \in Urls : CanExpire(u) /\ (TriggerPlay(u) \/ (pending = {} /\ TriggerLoad(u)))
    \/ \E c \in pending : CanExpire(c.url) /\ PlayAfterLoad(c)
    \/ \E t \in timers : TimerRuns(t)

SpecExpiry ==
    /\ Init
    /\ [][NextExpiry]_vars
    /\ WF_vars(Tick)
    /\ WF_vars(\E t \in timers : TimerRuns(t))

\* positions of the start offset slider (min 0, max 1, step 0.01)
StartOffsetEnds == {<<0, 1>>, <<1, 4>>, <<1, 1>>}

\* the start offset of a sequence and the offsets of its elements being moved
NextStarts ==
    \/ InitializeAudio
    \/ AddSequence
    \/ \E u \in Urls : ClickElement(u) \/ ClickLoad(u)
    \/ \E c \in pending : AddAfterLoad(c)
    \/ \E id \in MapKeySet(sequences) :
           \/ Activate(id)
           \/ \E value \in StartOffsetEnds : SetStartOffset(id, value)
           \/ \E index \in 1..Rows(id) :
                  \E value \in ElementValues.offset : SetElement(id, index, "offset", value)

SpecStarts == Init /\ [][NextStarts]_vars

\* the active sequence: sequences being added, activated, cleared and removed
\* while elements are clicked into them
NextActive ==
    \/ Tick
    \/ InitializeAudio
    \/ AddSequence
    \/ \E u \in Urls : ClickElement(u) \/ ClickLoad(u)
    \/ \E id \in MapKeySet(sequences) :
           Activate(id) \/ ClearSequence(id) \/ RemoveSequence(id)
    \/ \E c \in pending : AddAfterLoad(c)

SpecActive == Init /\ [][NextActive]_vars

\* the tempo of the sequences: the global bpm slider and the bars selects
\* moved while sequences are added and filled
NextTempo ==
    \/ InitializeAudio
    \/ AddSequence
    \/ \E u \in Urls : ClickElement(u) \/ ClickLoad(u)
    \/ \E c \in pending : AddAfterLoad(c)
    \/ \E value \in TempoValues : SetGlobalBpm(value)
    \/ \E id \in MapKeySet(sequences) :
           \/ Activate(id)
           \/ \E value \in BarsOptions : SetBars(id, value)

SpecTempo == Init /\ [][NextTempo]_vars

\* the global bpm slider moved between two positions while sequences are
\* added at different readings of the clock and filled
NextBpm ==
    \/ Tick
    \/ InitializeAudio
    \/ AddSequence
    \/ \E u \in Urls : ClickElement(u) \/ ClickLoad(u)
    \/ \E c \in pending : AddAfterLoad(c)
    \/ \E value \in BpmValues \cup {120} : SetGlobalBpm(value)
    \/ \E id \in MapKeySet(sequences) : Activate(id)

SpecBpm == Init /\ [][NextBpm]_vars

\* operations whose render call may throw: one-off plays and changes of the
\* bars of a sequence, at one reading of the clock
NextRenders ==
    \/ InitializeAudio
    \/ AddSequence
    \/ \E u \in Urls : \/ TriggerPlay(u) \/ TriggerPlayRenderFails(u) \/ TriggerLoad(u)
                        \/ ClickElement(u) \/ ClickLoad(u)
    \/ \E c \in pending : PlayAfterLoad(c) \/ AddAfterLoad(c)
    \/ \E id \in MapKeySet(sequences) :
           \/ Activate(id)
           \/ \E value \in BarsValues :
                  \/ SetBars(id, value)
                  \/ \E retry \in BOOLEAN : SetBarsRenderFails(id, value, retry)

SpecRenders == Init /\ [][NextRenders]_vars

\* the elements of a sequence: clicked in, moved by their offset sliders and
\* removed
NextOffsets ==
    \/ InitializeAudio
    \/ AddSequence
    \/ \E u \in Urls : ClickElement(u) \/ ClickLoad(u)
    \/ \E c \in pending : AddAfterLoad(c)
    \/ \E id \in MapKeySet(sequences) :
           \/ Activate(id)
           \/ \E index \in 1..Rows(id) :
                  \/ RemoveElement(id, index)
                  \/ \E value \in ElementValues.offset :
                         SetElement(id, index, "offset", value)

SpecOffsets == Init /\ [][NextOffsets]_vars

----------------------------------------------------------------------------
(* Properties *)

\* the creation numbers of the one-off voices that are active
ActiveBorn == {activeVoices[i].v.born : i \in DOMAIN activeVoices}

\* a playOneOffSound has just completed on a full set of one-off voices
PlayedOnFull == last.op = "playOneOff" /\ Len(last.before.voices) >= maxVoices

\* C1: the active one-off voices are never more than maxVoices, and a
\* playOneOffSound that finds maxVoices of them removes exactly one voice
\* before it inserts, the one that was added the longest ago
C1_EvictsLeastRecentlyAdded ==
    /\ Len(activeVoices) <= maxVoices
    /\ PlayedOnFull =>
          LET before == Range(last.before.voices)
              oldest == CHOOSE b \in before : \A o \in before : b <= o
          IN  before \ ActiveBorn = {oldest}

\* C5: when playOneOffSound evicts a voice, the expiry timer of that voice is
\* cancelled in the same step: once the voice is gone, no timer and no
\* voiceTimeouts entry is left for it
C5_EvictionCancelsTimer ==
    PlayedOnFull =>
        LET evicted == last.before.keys[1]
        IN  ~MapHas(activeVoices, evicted) =>
                /\ \A t \in timers : t.voiceId # evicted
                /\ ~MapHas(voiceTimeouts, evicted)

\* the loads of soundUrl that are in flight
InFlight(soundUrl) == {c \in pending : c.url = soundUrl}

\* C2: operations that ask for the same asset while its load is pending share
\* one load: no asset has two loads in flight, and no asset is registered
\* with the renderer more than once
C2_OneLoadPerAsset ==
    \A u \in Urls :
        /\ Cardinality(InFlight(u)) <= 1
        /\ registrations[u] <= 1

\* toggleLoopingSound has just run for the second time in succession on the
\* same sound
ToggledTwice == last.op = "toggleLoop" /\ last.again

\* C3: two toggles of the same sound in succession, nothing else happening
\* between them, leave the set of looping voices as it was before the first,
\* whether the sound was looping before or not
C3_ToggleTwiceRestores ==
    ToggledTwice => LoopSet(loopingVoices) = last.first

\* the sound was looping beside another one: the pair of toggles has removed
\* its voice and created it again
C3_ToggledOffAndOn ==
    /\ ToggledTwice
    /\ Len(loopingVoices) = 2
    /\ loopingVoices[2].k = last.url
    /\ last.first = LoopSet(loopingVoices)

\* a sequence with this id is stored and is soloed
Soloed(id) == MapHas(sequences, id) /\ MapGet(sequences, id).isSolo

\* the sequence has an element whose asset is loaded
HasLoadedElement(q) ==
    \E i \in DOMAIN q.elements : q.elements[i].soundUrl \in uploadedSamples

\* C4: while some sequence is soloed, the stored signal of every sequence
\* that is not soloed and has an element is the silent signal, and the stored
\* signal of a soloed, unmuted sequence with a loaded element is not silent
C4_SoloSilencesOthers ==
    (\E id \in MapKeySet(sequences) : Soloed(id)) =>
        \A id \in MapKeySet(sequences) :
            LET q == MapGet(sequences, id)
            IN  /\ (~q.isSolo /\ Len(q.elements) > 0 /\ MapHas(sequenceSignals, id)) =>
                       MapGet(sequenceSignals, id) = Silence
                /\ (q.isSolo /\ ~q.isMuted /\ HasLoadedElement(q)) =>
                       /\ MapHas(sequenceSignals, id)
                       /\ MapGet(sequenceSignals, id) # Silence

\* C6: a change of the mode removes every looping voice, leaves the one-off
\* voices, their timers, the trajectories and the sequences as they were,
\* and rebuilds the graph
C6_ModeChangeClearsLoops ==
    last.op = "modeChange" =>
        /\ loopingVoices = <<>>
        /\ OtherThanLoops = last.before
        /\ rendered # NoRender

\* the graph that the state of the component gives
DerivedGraph ==
    BuildGraph(mode, MapValues(loopingVoices),
               [i \in DOMAIN activeVoices |-> activeVoices[i].v.node],
               MapValues(sequenceSignals), MapValues(activeTrajectorySignals))

\* C7: after every handler, the graph handed to the renderer last is the
\* graph derived from the present mode, one-off voices, looping voices,
\* sequence signals and trajectory signals; before the first render call
\* that graph is silence
C7_RenderedIsCurrent ==
    IF rendered = NoRender
    THEN DerivedGraph = Silence
    ELSE rendered = RenderCall(DerivedGraph)

\* the summands of a graph: what its el.add nodes add up
RECURSIVE Summands(_)
Summands(n) ==
    IF n.op = "add" /\ Len(n.args) > 0
    THEN UNION {Summands(n.args[i]) : i \in DOMAIN n.args}
    ELSE {n}

LoopNodes == Range(MapValues(loopingVoices))
OneOffNodes == {activeVoices[i].v.node : i \in DOMAIN activeVoices}
SequenceNodes == Range(MapValues(sequenceSignals))
TrajectoryNodes == Range(MapValues(activeTrajectorySignals))
SelectedNodes == IF mode = LOOPING THEN LoopNodes ELSE OneOffNodes

\* C8: the graph handed to the renderer adds up the looping voices in looping
\* mode and the one-off voices in one-off mode, never the voices of the other
\* kind, with every stored sequence signal and every active trajectory
\* signal, and nothing else but silence; it is silence when there is nothing
\* to add; the left and the right channel get the same graph
C8_GraphByMode ==
    rendered # NoRender =>
        LET summands == Summands(rendered.left)
            other == (LoopNodes \cup OneOffNodes) \ SelectedNodes
        IN  /\ rendered.left = rendered.right
            /\ SelectedNodes \subseteq summands
            /\ other \cap summands = {}
            /\ SequenceNodes \subseteq summands
            /\ TrajectoryNodes \subseteq summands
            /\ summands \subseteq
                   SelectedNodes \cup SequenceNodes \cup TrajectoryNodes \cup {Silence}
            /\ (SelectedNodes \cup SequenceNodes \cup TrajectoryNodes = {}) =>
                   rendered.left = Silence

\* the mode has just been changed to looping with a one-off voice still
\* active, a sequence signal stored and a trajectory playing
C8_OneOffVoiceLeftOut ==
    /\ last.op = "modeChange"
    /\ mode = LOOPING
    /\ OneOffNodes # {}
    /\ SequenceNodes # {}
    /\ TrajectoryNodes # {}
    /\ rendered # NoRender

\* C9: a load that fails leaves every piece of the state of the engines as
\* it was, and does not mark the asset as loaded: the assets in the loaded
\* set are those a load has registered, so that a later operation loads the
\* asset again
C9_FailedLoadChangesNothing ==
    /\ last.op = "loadFailed" => EngineState = last.before
    /\ \A u \in Urls : u \in uploadedSamples <=> registrations[u] > 0

\* a sound whose load has failed has been played by a later trigger
C9_PlayedAfterFailure ==
    /\ last.op = "playOneOff"
    /\ ~last.sync
    /\ fetches[last.url] = 2
    /\ registrations[last.url] = 1
    /\ InFlight(last.url) = {}
    /\ \E i \in DOMAIN activeVoices : activeVoices[i].k[1] = last.url

\* C10: every asset path of the graph handed to the renderer is in the set
\* of loaded assets
C10_RenderedPathsLoaded ==
    rendered # NoRender => Paths(rendered.left) \subseteq uploadedSamples

\* the el.sparseq nodes of a graph
RECURSIVE Sparseqs(_)
Sparseqs(n) ==
    (IF n.op = "sparseq" THEN {n} ELSE {})
    \cup UNION {Sparseqs(n.args[i]) : i \in DOMAIN n.args}

\* the master sequences of the trajectory signals that are stored
Masters ==
    UNION {Sparseqs(activeTrajectorySignals[i].v) : i \in DOMAIN activeTrajectorySignals}

\* stopTrajectoryRecording has just compiled the trajectory it recorded
JustCompiled ==
    /\ last.op = "stopRecording"
    /\ MapHas(trajectories, last.id)
    /\ MapHas(activeTrajectorySignals, last.id)

\* tick is time (in ms) times 100 / 1000, rounded to the nearest integer
IsRounded(tick, ms) == 10 * tick - 5 <= ms /\ ms < 10 * tick + 5

\* C11: in a compiled trajectory the tick of each event is round(time * 100),
\* shifted by one for all events; the loop window starts one tick before the
\* tick of the first event and ends at the tick of the last one, so that every
\* tick t of an event has loopStart < t <= loopEnd; events at 0.00 s and
\* 0.30 s give the window from 0 through 31, tick 30 after the first event
C11_LoopWindow ==
    /\ \A m \in Masters :
           LET seq == m.props.seq
               loop == m.props.loop
           IN  /\ loop[1] = seq[1].tickTime - 1
               /\ loop[2] = seq[Len(seq)].tickTime
               /\ \A i \in DOMAIN seq :
                      loop[1] < seq[i].tickTime /\ seq[i].tickTime <= loop[2]
    /\ JustCompiled =>
           LET events == MapGet(trajectories, last.id).events
           IN  \A m \in Sparseqs(MapGet(activeTrajectorySignals, last.id)) :
                   /\ Len(m.props.seq) = Len(events)
                   /\ \A i \in DOMAIN events :
                          IsRounded(m.props.seq[i].tickTime - 1, events[i].time)
    /\ LET seq == TrajectorySeq(<<[time |-> 0, soundUrl |-> "u1"],
                                  [time |-> 300, soundUrl |-> NoUrl]>>)
       IN  /\ MasterSeq(1, seq).props.loop = <<0, 31>>
           /\ seq[2].tickTime - seq[1].tickTime = 30

\* a trajectory of two sounds recorded half a second apart has been compiled
C11_CompiledTwoSounds ==
    /\ JustCompiled
    /\ \E m \in Sparseqs(MapGet(activeTrajectorySignals, last.id)) :
           /\ Len(m.props.seq) = 3
           /\ m.props.seq[2].tickTime > m.props.seq[1].tickTime + 1
           /\ m.props.seq[3].tickTime >= m.props.seq[2].tickTime

\* the el.sample players of a graph that are gated by a master sequence
RECURSIVE Players(_)
Players(n) ==
    (IF n.op = "sample" /\ n.args[1].op = "eq" THEN {n} ELSE {})
    \cup UNION {Players(n.args[i]) : i \in DOMAIN n.args}

\* the value a player compares its master sequence with
GateValue(player) == player.args[1].args[2].props.value[1]

\* the entries of seq that can be the one in effect at tick t: those with the
\* latest tickTime not after t (one of them, when several share that tick)
InEffect(seq, t) ==
    {i \in DOMAIN seq :
        /\ seq[i].tickTime <= t
        /\ \A j \in DOMAIN seq : seq[j].tickTime <= t => seq[j].tickTime <= seq[i].tickTime}

\* the entries of seq that stand for a sound
SoundEntries(seq) == {i \in DOMAIN seq : seq[i].soundUrl # NoUrl}

\* C12: in a compiled trajectory with n sound events the master sequence
\* gives the sound events the values 1..n in recording order, pairwise
\* distinct and not zero; the player of the k-th sound is gated by the value
\* of that same event; and each sound event has its own trigger window in
\* the loop, ticks at which it is the only sound whose entry can be in
\* effect, also when two events were recorded less than a tick apart
C12_OneWindowPerEvent ==
    \A id \in MapKeySet(activeTrajectorySignals) :
        LET signal == MapGet(activeTrajectorySignals, id)
        IN  \A m \in Sparseqs(signal) :
                LET seq == m.props.seq
                    sounds == SoundEntries(seq)
                IN  /\ \A i \in sounds : seq[i].value = i /\ i <= Cardinality(sounds)
                    /\ \A i, j \in DOMAIN seq : i # j => seq[i].value # seq[j].value
                    /\ \A i \in sounds :
                           \E p \in Players(signal) :
                               GateValue(p) = seq[i].value /\ p.props.path = seq[i].soundUrl
                    /\ Cardinality(Players(signal)) = Cardinality(sounds)
                    /\ \A i \in sounds :
                           \E t \in m.props.loop[1]..m.props.loop[2] :
                               InEffect(seq, t) \cap sounds = {i}

\* the ids of the stored sequences that are recording
RecordingIds == {id \in MapKeySet(sequences) : MapGet(sequences, id).isRecording}

\* C13: at most one stored sequence has isRecording = true; activating a
\* sequence while another one is active stops the recording of that one and
\* leaves the activated sequence the only one recording; activating the
\* active sequence deactivates it
C13_OneRecordingSequence ==
    /\ Cardinality(RecordingIds) <= 1
    /\ last.op = "activate" =>
           IF last.previous = last.id
           THEN activeSequenceId = NULL /\ last.id \notin RecordingIds
           ELSE activeSequenceId = last.id /\ RecordingIds = {last.id}

\* the multiplier of a bar setting: 1/4, 1/2, 1, 2, 3, 4, 8 for the seven
\* settings of the select and 1 for anything else
MultiplierOf(bars) ==
    IF bars = "1/4 bar" THEN <<1, 4>>
    ELSE IF bars = "1/2 bar" THEN <<1, 2>>
    ELSE IF bars = "2 bars" THEN <<2, 1>>
    ELSE IF bars = "3 bars" THEN <<3, 1>>
    ELSE IF bars = "4 bars" THEN <<4, 1>>
    ELSE IF bars = "8 bars" THEN <<8, 1>>
    ELSE <<1, 1>>

\* the fraction r is (60 / bpm) * 4 * multiplier
IsDuration(r, bpm, bars) ==
    /\ r[2] > 0
    /\ r[1] * bpm * MultiplierOf(bars)[2] = 240 * MultiplierOf(bars)[1] * r[2]

\* getDurationInSeconds over the whole range of the bpm slider and every bar
\* setting, two unknown ones included
DurationTable ==
    /\ \A bpm \in 10..300 :
           \A bars \in BarsOptions \cup {"16 bars", "bar"} :
               IsDuration(getDurationInSeconds([bpm |-> bpm, bars |-> bars]), bpm, bars)
    /\ getDurationInSeconds([bpm |-> 120, bars |-> "1 bar"]) = <<2, 1>>
    /\ getDurationInSeconds([bpm |-> 60, bars |-> "2 bars"]) = <<8, 1>>

\* the sequence durations the stored signal of sequence id is compiled with
RECURSIVE CompiledDurations(_)
CompiledDurations(n) ==
    (IF n.op = "mod" THEN {n.args[2].props.value} ELSE {})
    \cup UNION {CompiledDurations(n.args[i]) : i \in DOMAIN n.args}

\* the handler that ran last has set the bars of sequence id or the bpm of
\* all sequences
JustTimed(id) ==
    \/ last.op = "setBars" /\ last.id = id
    \/ last.op = "globalBpm"

\* C14: getDurationInSeconds returns (60 / bpm) * 4 * m for every bpm of
\* 10..300 and every bar setting, m being 1 for an unknown setting; 120 bpm
\* and '1 bar' give 2 seconds, 60 bpm and '2 bars' give 8 seconds; the
\* sequences of the page have that duration, and so has the signal that a
\* change of the bars or of the bpm has just compiled
C14_DurationInSeconds ==
    /\ DurationTable
    /\ \A id \in MapKeySet(sequences) :
           LET q == MapGet(sequences, id)
           IN  /\ IsDuration(getDurationInSeconds(q), q.bpm, q.bars)
               /\ (JustTimed(id) /\ MapHas(sequenceSignals, id)) =>
                      \A d \in CompiledDurations(MapGet(sequenceSignals, id)) :
                          IsDuration(d, q.bpm, q.bars)

\* a sequence set to 60 bpm and '2 bars' is compiled with a duration of 8 s
C14_EightSeconds ==
    \E id \in MapKeySet(sequenceSignals) :
        /\ MapHas(sequences, id)
        /\ MapGet(sequences, id).bpm = 60
        /\ MapGet(sequences, id).bars = "2 bars"
        /\ JustTimed(id)
        /\ CompiledDurations(MapGet(sequenceSignals, id)) = {<<8, 1>>}

\* times are the normalized positions of elements with these offsets: the
\* first is 0, and the steps from each position to the next (to 1 after the
\* last) are to one another as the offsets are, which makes position i the
\* sum of the offsets before i over the sum of all offsets
ArePositions(times, offsets) ==
    LET n == Len(offsets)
        step(i) == RSub(IF i = n THEN <<1, 1>> ELSE times[i + 1], times[i])
    IN  /\ Len(times) = n
        /\ n > 0 => times[1] = <<0, 1>>
        /\ \A i, j \in 1..n : RMul(step(i), offsets[j]) = RMul(step(j), offsets[i])
        /\ \A i \in 1..n : RLt(<<0, 1>>, step(i)) /\ RLt(times[i], <<1, 1>>)

\* a Sequence with elements of the given offsets
WithOffsets(offsets) ==
    [elements |-> [i \in DOMAIN offsets |-> [offset |-> offsets[i]]]]

\* the offsets tried: the ends and the default of the slider, and 3
OffsetSamples == {<<1, 10>>, <<1, 1>>, <<2, 1>>, <<3, 1>>}

\* getElementTimes on every list of up to three of the offsets tried, and on
\* the lists of the examples
PositionTable ==
    /\ \A n \in 0..3 :
           \A offsets \in [1..n -> OffsetSamples] :
               ArePositions(getElementTimes(WithOffsets(offsets)), offsets)
    /\ getElementTimes(WithOffsets(<<>>)) = <<>>
    /\ getElementTimes(WithOffsets(<<<<1, 1>>, <<1, 1>>>>)) = <<<<0, 1>>, <<1, 2>>>>
    /\ getElementTimes(WithOffsets(<<<<1, 1>>, <<3, 1>>>>)) = <<<<0, 1>>, <<1, 4>>>>

\* the offsets of the elements of a sequence
OffsetsOf(q) == [i \in DOMAIN q.elements |-> q.elements[i].offset]

\* C15: getElementTimes gives element i the sum of the offsets before it over
\* the sum of all offsets: the first position is 0, positions grow strictly
\* and stay below 1; offsets {1, 1} give {0, 0.5}, offsets {1, 3} give
\* {0, 0.25}, and an empty sequence gives the empty list
C15_ElementTimes ==
    /\ PositionTable
    /\ \A id \in MapKeySet(sequences) :
           LET q == MapGet(sequences, id)
           IN  ArePositions(getElementTimes(q), OffsetsOf(q))

\* an offset slider has just been moved in a sequence of two elements, whose
\* offsets now differ
C15_UnequalOffsets ==
    /\ last.op = "setElement"
    /\ MapHas(sequences, last.id)
    /\ LET q == MapGet(sequences, last.id)
       IN  /\ Len(q.elements) = 2
           /\ q.elements[1].offset # q.elements[2].offset
           /\ getElementTimes(q)[2] # <<1, 2>>
           /\ MapHas(sequenceSignals, last.id)

\* the click on #stop-recording has just been handled, a recording being in
\* progress
StopClicked == last.op \in {"stopRecording", "stopRecordingThrows"}

\* C16: stopRecording during a recording appends the end marker (an event
\* without a sound) to the recorded trajectory, ends the recording and starts
\* the playback in the same step: the trajectory is marked playing and its
\* compiled signal is among the active trajectory signals
C16_StopStartsPlayback ==
    StopClicked =>
        /\ ~isRecording
        /\ currentRecordingId = NULL
        /\ MapHas(trajectories, last.id)
        /\ LET t == MapGet(trajectories, last.id)
           IN  /\ Len(t.events) > 0
               /\ t.events[Len(t.events)].soundUrl = NoUrl
               /\ t.isPlaying
        /\ MapHas(activeTrajectorySignals, last.id)

\* the signal that is stored for sequence id is the one its present fields
\* compile to (none when they compile to null)
IsCompiled(id) ==
    LET signal == createSequenceVoices(MapGet(sequences, id), soloSequences, Assets)
    IN  IF signal = NoSignal
        THEN ~MapHas(sequenceSignals, id)
        ELSE MapHas(sequenceSignals, id) /\ MapGet(sequenceSignals, id) = signal

C18_RenderFailureKeepsState ==
    /\ last.op = "playOneOffRenderFails" =>
           /\ MapHas(activeVoices, last.voiceId)
           /\ MapHas(voiceTimeouts, last.voiceId)
           /\ \E t \in timers : t.voiceId = last.voiceId /\ t.id = last.born
    /\ last.op = "setBarsRenderFails" => IsCompiled(last.id)

\* C19: an asset that is loaded stays loaded with the duration it has, and
\* no operation that starts once it is loaded issues a fetch for it or joins
\* the loads in flight
C19_LoadedAssetsStay ==
    [][\A u \in uploadedSamples :
           /\ MapHas(sampleDurations, u)
           /\ u \in uploadedSamples'
           /\ MapHas(sampleDurations', u)
           /\ MapGet(sampleDurations', u) = MapGet(sampleDurations, u)
           /\ fetches'[u] = fetches[u]
           /\ {c \in pending' : c.url = u} \subseteq {c \in pending : c.url = u}]_vars

\* a sound that two loads have registered is played without a load
C19_PlayedFromCache ==
    /\ last.op = "playOneOff"
    /\ last.sync
    /\ last.url \in uploadedSamples
    /\ registrations[last.url] = 2
    /\ fetches[last.url] = 2

\* C20: an element is appended only to a sequence that exists and is the
\* active, recording one at that moment, and the sequence recompiled after
\* the append (the one activeSequenceId names) is the one that received it,
\* whatever happened to the active sequence while the sample was loading
C20_AppendToActive ==
    last.op = "addElement" =>
        /\ last.id # NULL
        /\ MapHas(sequences, last.id)
        /\ MapGet(sequences, last.id).oid = last.oid
        /\ MapGet(sequences, last.id).isRecording

\* C21: whenever no handler is suspended in a load, the stored signal of
\* every sequence is what its present fields and the present solo set
\* compile to, and it has none exactly when they compile to none
C21_SignalsAreCompiled ==
    pending = {} => \A id \in MapKeySet(sequences) : IsCompiled(id)

\* the events of the trajectories that are in the registry
EventLists == {MapGet(trajectories, id).events : id \in MapKeySet(trajectories)}

\* C22: with Date.now() never going back, the events of every trajectory are
\* in non-decreasing order of time, and an end marker is the last event of
\* its trajectory (no sound event follows it, and no event is later than it)
C22_EventsInOrder ==
    \A events \in EventLists :
        /\ \A i, j \in DOMAIN events : i <= j => events[i].time <= events[j].time
        /\ \A i \in DOMAIN events : events[i].soundUrl = NoUrl => i = Len(events)

\* a stopped trajectory with two sounds recorded at different times, the
\* second one by a trigger whose sound was loading
C22_LateEventRecorded ==
    /\ last.op = "stopRecording"
    /\ MapHas(trajectories, last.id)
    /\ LET events == MapGet(trajectories, last.id).events
       IN  /\ Len(events) = 3
           /\ events[1].time < events[2].time
           /\ events[2].time < events[3].time
           /\ events[2].soundUrl \in uploadedSamples
           /\ events[3].soundUrl = NoUrl

\* the events of trajectory id in the registry trajs, none when it is not there
EventsOf(trajs, id) == IF MapHas(trajs, id) THEN MapGet(trajs, id).events ELSE <<>>

\* C23: the clock of a recording starts with its first event. startRecording
\* leaves the time reference unset; the first sound pushed into a trajectory
\* has time 0 and sets the reference to the clock's reading; every later
\* event, the end marker included, has the time elapsed since that reading;
\* and the reference is set only while the trajectory has no event
C23_LazyClock ==
    [][/\ (steps' # steps /\ last'.op = "startRecording") =>
              /\ recordingStartTime' = NULL
              /\ EventsOf(trajectories', currentRecordingId') = <<>>
       /\ recordingStartTime' # recordingStartTime =>
              \/ steps' # steps /\ last'.op = "startRecording"
              \/ /\ recordingStartTime = NULL
                 /\ recordingStartTime' = now
                 /\ EventsOf(trajectories, currentRecordingId) = <<>>
       /\ \A id \in MapKeySet(trajectories) \cap MapKeySet(trajectories') :
              LET old == EventsOf(trajectories, id)
                  new == EventsOf(trajectories', id)
                  e == new[Len(new)]
              IN  Len(new) = Len(old) + 1 =>
                      /\ (Len(old) = 0 /\ e.soundUrl # NoUrl) =>
                             e.time = 0 /\ recordingStartTime' = now
                      /\ Len(old) > 0 =>
                             /\ recordingStartTime' = recordingStartTime
                             /\ e.time = now - recordingStartTime]_vars

\* a recording whose first sound came after the clock had moved on from the
\* start of the recording, stopped later still
C23_FirstEventLate ==
    /\ last.op = "stopRecording"
    /\ MapHas(trajectories, last.id)
    /\ recordingStartTime > last.id
    /\ LET events == MapGet(trajectories, last.id).events
       IN  /\ Len(events) >= 2
           /\ events[1].time = 0
           /\ events[1].soundUrl # NoUrl
           /\ events[Len(events)].time = now - recordingStartTime
           /\ events[Len(events)].time > 0

\* the recording of an event list has been stopped: it ends with the end marker
IsStopped(events) == Len(events) > 0 /\ events[Len(events)].soundUrl = NoUrl

\* C24: a trajectory only moves forward. One that has a compiled signal is in
\* the registry, ends with the end marker and is not the recording target;
\* the events of a stopped trajectory never change; a trajectory in the
\* registry never becomes the recording target, and a signal is stored only
\* for the trajectory whose recording is being stopped
C24_TrajectoryForwardOnly ==
    /\ [](\A id \in MapKeySet(activeTrajectorySignals) :
              /\ MapHas(trajectories, id)
              /\ IsStopped(EventsOf(trajectories, id))
              /\ id # currentRecordingId)
    /\ [][/\ \A id \in MapKeySet(trajectories) \cap MapKeySet(trajectories') :
                 IsStopped(EventsOf(trajectories, id)) =>
                     EventsOf(trajectories', id) = EventsOf(trajectories, id)
          /\ (currentRecordingId' # NULL /\ currentRecordingId' # currentRecordingId) =>
                 ~MapHas(trajectories, currentRecordingId')
          /\ \A id \in MapKeySet(activeTrajectorySignals') :
                 ~MapHas(activeTrajectorySignals, id) =>
                     id = currentRecordingId /\ ~IsStopped(EventsOf(trajectories, id))]_vars

IsActive(b) == \E i \in DOMAIN activeVoices : activeVoices[i].v.born = b

RECURSIVE Sequencers(_)
Sequencers(n) ==
    (IF n.op = "sampleseq2" THEN {n} ELSE {})
    \cup UNION {Sequencers(n.args[i]) : i \in DOMAIN n.args}

\* the sampleseq2 nodes of all stored sequence signals
StoredSequencers ==
    UNION {Sequencers(MapGet(sequenceSignals, id)) : id \in MapKeySet(sequenceSignals)}

\* the duration of a loaded sample in seconds
SecondsOf(url) == Frac(MapGet(sampleDurations, url), 1000)

\* C27: every element of a compiled sequence steps on at its start time and
\* off at max(start + sampleDuration, durationSeconds): the window is never
\* shorter than the sample, and never ends before the cycle does
C27_StepOffTime ==
    \A n \in StoredSequencers :
        LET on == n.props.seq[1]
            off == n.props.seq[2]
            sampleDuration == SecondsOf(n.props.path)
        IN  /\ Len(n.props.seq) = 2
            /\ on.value = 1
            /\ off.value = 0
            /\ RLe(sampleDuration, RSub(off.time, on.time))
            /\ \A d \in CompiledDurations(n) :
                   /\ RLe(d, off.time)
                   /\ off.time \in {d, RAdd(on.time, sampleDuration)}

\* a compiled sequence with an element that starts inside the cycle and whose
\* sample ends after the cycle does, and one whose sample ends before it
C27_BothBranches ==
    /\ \E n \in StoredSequencers :
           /\ RLt(<<0, 1>>, n.props.seq[1].time)
           /\ \E d \in CompiledDurations(n) : RLt(d, n.props.seq[2].time)
    /\ \E n \in StoredSequencers :
           \E d \in CompiledDurations(n) :
               /\ n.props.seq[2].time = d
               /\ RLt(RAdd(n.props.seq[1].time, SecondsOf(n.props.path)), d)

\* startOffset * D + p * (1 - startOffset) * D
StartAt(startOffset, p, d) ==
    RAdd(RMul(startOffset, d), RMul(RMul(p, RSub(<<1, 1>>, startOffset)), d))

\* C28: in a sequence with cycle length D and start offset s, element i
\* starts at s * D + p_i * (1 - s) * D; the start times do not decrease in
\* the order of insertion, the first is s * D, and all lie in the cycle,
\* s * D <= start < D; the signal compiled from the sequence steps on at
\* these times
C28_StartTimesInCycle ==
    \A id \in MapKeySet(sequences) :
        LET q == MapGet(sequences, id)
            d == getDurationInSeconds(q)
            p == getElementTimes(q)
            start == [i \in DOMAIN q.elements |-> StartAt(q.startOffset, p[i], d)]
        IN  /\ \A i, j \in DOMAIN start : i <= j => RLe(start[i], start[j])
            /\ Len(start) > 0 => start[1] = RMul(q.startOffset, d)
            /\ \A i \in DOMAIN start :
                   RLe(RMul(q.startOffset, d), start[i]) /\ RLt(start[i], d)
            /\ (IsCompiled(id) /\ MapHas(sequenceSignals, id)) =>
                   {n.props.seq[1].time : n \in Sequencers(MapGet(sequenceSignals, id))}
                       = {start[i] : i \in DOMAIN start}

\* C29: stopping a recording in which no sound was recorded compiles no
\* signal: no entry is added to the active trajectory signals and the
\* rendered graph stays as it is
C29_EmptyTrajectoryNoSignal ==
    [][(steps' # steps /\ last'.op = "stopRecording" /\ last'.sounds = 0) =>
           /\ activeTrajectorySignals' = activeTrajectorySignals
           /\ rendered' = rendered]_vars

\* C30: every id that has a stored sequence signal is the id of a sequence
\* of the page that has at least one element; in particular a sequence that
\* was removed or has no element has no stored signal, whatever loads of
\* the add-element operation were pending
C30_SignalsOfFilledSequences ==
    \A id \in MapKeySet(sequenceSignals) :
        /\ MapHas(sequences, id)
        /\ Len(MapGet(sequences, id).elements) > 0

----------------------------------------------------------------------------
(* The three engines keep to their own state *)

RecorderOps == {"trigger", "startRecording", "stopRecording", "stopRecordingThrows",
                "stopTrajectory", "clearTrajectory"}

VoiceOps == {"playOneOff", "toggleLoop", "expire"}

SequenceOps == {"addSequence", "activate", "clearSequence", "removeSequence",
                "addElement", "removeElement", "setElement", "setBars",
                "setStartOffset", "setVolume", "mute", "solo", "globalBpm"}

VoiceState == <<activeVoices, voiceTimeouts, timers, loopingVoices>>

SequenceState == <<sequences, sequenceSignals, activeSequenceId, soloSequences,
                   globalBpm>>

\* the registry is as it was, but for the event that the listener of the
\* trigger hands to recordEvent while a recording is made
RegistryKept ==
    /\ activeTrajectorySignals' = activeTrajectorySignals
    /\ \/ trajectories' = trajectories
       \/ /\ isRecording
          /\ MapKeys(trajectories') = MapKeys(trajectories)
          /\ \A id \in MapKeySet(trajectories) :
                 IF id = currentRecordingId
                 THEN /\ MapGet(trajectories', id).isPlaying =
                             MapGet(trajectories, id).isPlaying
                      /\ Len(EventsOf(trajectories', id)) =
                             Len(EventsOf(trajectories, id)) + 1
                      /\ SubSeq(EventsOf(trajectories', id), 1,
                                Len(EventsOf(trajectories, id))) =
                             EventsOf(trajectories, id)
                 ELSE MapGet(trajectories', id) = MapGet(trajectories, id)

\* C31: each operation changes the state of its own engine only: the recorder
\* and trajectory operations leave the one-off voices, their timers, the
\* looping voices and the sequences as they are, the sequence operations leave
\* the voices and the trajectories as they are, and playOneOff, toggleLoop and
\* the expiry of a voice leave the trajectories and the sequences as they are
C31_OwnEngineOnly ==
    [][steps' # steps =>
          /\ last'.op \in RecorderOps =>
                 UNCHANGED <<VoiceState, SequenceState>>
          /\ last'.op \in SequenceOps =>
                 UNCHANGED <<VoiceState, trajectories, activeTrajectorySignals>>
          /\ last'.op \in VoiceOps =>
                 RegistryKept /\ UNCHANGED SequenceState]_vars

\* C32: looping voices exist only in looping mode, and at most one per asset:
\* whenever the mode is one-off there is no looping voice, whatever the order
\* of mode changes and of toggles completing their loads
C32_LoopsOnlyInLoopingMode ==
    /\ \A i, j \in DOMAIN loopingVoices :
           loopingVoices[i].k = loopingVoices[j].k => i = j
    /\ mode = ONE_OFF => loopingVoices = <<>>

\* the handler c, a toggleLoop for the asset whose other pending toggleLoop
\* completed in the step before, completes in this step
SecondToggleCompletes(c) ==
    /\ c.op = "toggleLoop"
    /\ last.op = "toggleLoop" /\ ~last.sync /\ last.url = c.url
    /\ steps' # steps
    /\ last'.op = "toggleLoop" /\ ~last'.sync /\ last'.url = c.url
    /\ pending' = pending \ {c}

\* C33: two toggleLoop calls for the same asset, the second issued while the
\* load of the first is pending, cancel out: once both have completed the
\* asset has no looping voice, as before the first call
C33_ConcurrentTogglesCancel ==
    [][\A c \in pending :
           SecondToggleCompletes(c) => ~MapHas(loopingVoices', c.url)]_vars

\* the ids of the sequences that exist and are soloed
SoloedIds == {id \in MapKeySet(sequences) : MapGet(sequences, id).isSolo}

\* C34: the solo bookkeeping set is the set of ids of the existing sequences
\* whose isSolo flag is true; so whenever no existing sequence is soloed,
\* every unmuted sequence with a loaded element has a stored signal that is
\* not silent, also after a soloed sequence has been removed
C34_SoloSetIsSoloedIds ==
    /\ soloSequences = SoloedIds
    /\ SoloedIds = {} =>
           \A id \in MapKeySet(sequences) :
               LET q == MapGet(sequences, id)
               IN  (~q.isMuted /\ HasLoadedElement(q)) =>
                       /\ MapHas(sequenceSignals, id)
                       /\ MapGet(sequenceSignals, id) # Silence

\* C35: while a recording is in progress the registry holds the trajectory
\* being recorded; isRecording is true exactly when a current recording id is
\* set; and every click on Stop Recording ends with isRecording false and no
\* current recording id, whatever was done to the trajectory in between
C35_RecordingHasTarget ==
    /\ (isRecording /\ currentRecordingId # NULL) =>
           MapHas(trajectories, currentRecordingId)
    /\ isRecording <=> currentRecordingId # NULL
    /\ StopClicked => ~isRecording /\ currentRecordingId = NULL

\* C36: the active sequence id is null or the id of a sequence that exists,
\* and a sequence has isRecording = true exactly when its id is the active
\* sequence id, after any order of activate, clear and remove clicks
C36_ActiveIsRecording ==
    /\ activeSequenceId = NULL \/ MapHas(sequences, activeSequenceId)
    /\ \A id \in MapKeySet(sequences) :
           MapGet(sequences, id).isRecording <=> id = activeSequenceId

\* the signal stored for sequence id is there and is not the silent one
Audible(id) == MapHas(sequenceSignals, id) /\ MapGet(sequenceSignals, id) # Silence

\* C37: a muted sequence compiles to the silent signal in every solo
\* configuration, also when it is soloed itself; and the click that un-mutes
\* a sequence leaves it with a signal that is not silent exactly when no
\* sequence is soloed or it is soloed itself (sequences with an element)
C37_MuteWinsOverSolo ==
    /\ \A id \in MapKeySet(sequences) :
           LET q == MapGet(sequences, id)
           IN  (q.isMuted /\ Len(q.elements) > 0) =>
                   createSequenceVoices(q, soloSequences, Assets) = Silence
    /\ (last.op = "mute" /\ MapHas(sequences, last.id)) =>
           LET q == MapGet(sequences, last.id)
           IN  HasLoadedElement(q) =>
                   IF q.isMuted
                   THEN MapHas(sequenceSignals, last.id)
                        /\ MapGet(sequenceSignals, last.id) = Silence
                   ELSE Audible(last.id) <=> (SoloedIds = {} \/ q.isSolo)

\* C38: before the audio is initialized no operation changes the state of
\* the voices or of the sequences' elements and no graph is handed to the
\* renderer: playOneOff, toggleLoop and the click that adds an element return
\* without effect, and no handler calls render
C38_NothingBeforeInit ==
    ~initialized =>
        /\ rendered = NoRender
        /\ activeVoices = <<>> /\ voiceTimeouts = <<>> /\ timers = {}
        /\ loopingVoices = <<>>
        /\ uploadedSamples = {} /\ pending = {}
        /\ sequenceSignals = <<>>
        /\ \A id \in MapKeySet(sequences) : MapGet(sequences, id).elements = <<>>

\* C39: every playOneOff that completes adds one new voice under an id that
\* no active one-off voice had, so that the count grows by one below maxVoices
\* and stays at maxVoices otherwise, also for two triggers of one asset at one
\* clock reading; and a timer removes no voice but the one it was set for
C39_FreshVoiceIds ==
    /\ last.op = "playOneOff" =>
           /\ \E i \in DOMAIN activeVoices :
                  /\ activeVoices[i].v.born = last.born
                  /\ activeVoices[i].k \notin Range(last.before.keys)
           /\ Len(activeVoices) =
                  IF Len(last.before.voices) < maxVoices
                  THEN Len(last.before.voices) + 1
                  ELSE maxVoices
    /\ last.op = "expire" =>
           Range(last.before.voices) \ ActiveBorn \subseteq {last.id}

====
